---- MODULE Spec2Model ----
(***************************************************************************)
(* AgriScan: the sensor-to-status pipeline.                                *)
(*                                                                         *)
(* Part 1 models the physics engine (physics.js as bundled for the         *)
(* firmware): sensor calibration, quality control, event detection, the    *)
(* auto-calibration state machine and the status engine.                   *)
(* Part 2 models the firmware (main.cpp, db_manager.cpp): the acquisition  *)
(* loop, the RAM batch, the SQLite store and the HTTP read handlers.       *)
(*                                                                         *)
(* Number representation.  The source computes in IEEE doubles; the model  *)
(* computes in fixed point:                                                *)
(*   - water contents (theta, thresholds) in units of 1e-4 m3/m3,          *)
(*   - confidence and fractions in units of 1e-4,                          *)
(*   - timestamps in seconds,                                              *)
(*   - a regression slope is the exact rational num/den (den > 0) in       *)
(*     theta-units per hour, compared by cross-multiplication.             *)
(* Divisions that are not exact round toward minus infinity (\div).        *)
(***************************************************************************)
EXTENDS Integers, Sequences, FiniteSets, TLC

\* JavaScript null / a field that is not set.
Null == -1

(***************************************************************************)
(* CONFIG                                                                  *)
(***************************************************************************)
spike_z_thresh == 6
\* stuck_eps 0.001 m3/m3
stuck_eps == 10
\* DEFAULT_SOIL.theta_s 0.43
theta_s == 4300
\* kd_init 0.05 per hour, in 1e-3; ku_init 0.0005, in 1e-4
kd_init == 50
ku_init == 5
\* stuck_hours: 24, hours before declaring stuck
stuck_hours == 24
\* theta_bounds [0, 0.50]
theta_bound_lo == 0
theta_bound_hi == 5000
\* wet_jump_thresh 0.02 m3/m3
wet_jump_thresh == 200
\* seconds
wet_window == 7200
min_event_separation == 43200
post_event_ignore == 3600
slope_window == 7200
\* s_min 0.0005 m3/m3/hr, as the rational s_min_num / s_min_den theta-units/hr
s_min_num == 5
s_min_den == 1
hold_hours == 8
\* fc_update_lambda 0.25 = 1 / fc_update_lambda_inv
fc_update_lambda_inv == 4
\* theta_dry_percentile 0.05 * 100
theta_dry_percentile == 5
\* theta_dry_window 30 days
theta_dry_window == 30
\* eta_refill 0.5 = 1 / eta_refill_inv
eta_refill_inv == 2
\* refill_hysteresis 0.01 m3/m3
refill_hysteresis == 100
\* spike epsilon 0.001 added to the standard deviation
spike_eps == 10
\* temperature limits of the QC, degrees C
temp_lo == -10
temp_hi == 60
T_ref == 20
a_temp == 0
maxHistoryLength == 2880

\* SoilModel constructor: vanGenuchten_theta(330) = 0.16538 and
\* vanGenuchten_theta(15000) = 0.08838 for DEFAULT_SOIL
soil_theta_fc == 1654
soil_theta_pwp == 884
\* availableWater's default root depth, cm
rootDepth_cm == 30

(***************************************************************************)
(* Utility functions                                                       *)
(***************************************************************************)
Abs(x) == IF x < 0 THEN -x ELSE x

clamp(val, min, max) ==
    LET lo == IF val > min THEN val ELSE min
    IN  IF lo < max THEN lo ELSE max

RECURSIVE SumSeq(_)
SumSeq(s) == IF s = <<>> THEN 0 ELSE Head(s) + SumSeq(Tail(s))

\* the last k elements of s (all of s when it is shorter): Array.slice(-k)
LastK(s, k) == IF Len(s) <= k THEN s ELSE SubSeq(s, Len(s) - k + 1, Len(s))

Thetas(h) == [i \in 1..Len(h) |-> h[i].theta]

MaxOf(s) == CHOOSE v \in {s[i] : i \in 1..Len(s)} : \A j \in 1..Len(s) : s[j] <= v
MinOf(s) == CHOOSE v \in {s[i] : i \in 1..Len(s)} : \A j \in 1..Len(s) : s[j] >= v

\* the k-th smallest element (k from 0) of a non-empty sequence of numbers:
\* sorted[k] of [...arr].sort((a, b) => a - b)
SortedAt(s, k) ==
    CHOOSE v \in {s[i] : i \in 1..Len(s)} :
        /\ Cardinality({i \in 1..Len(s) : s[i] < v}) <= k
        /\ Cardinality({i \in 1..Len(s) : s[i] <= v}) > k

median(arr) ==
    IF Len(arr) = 0 THEN Null
    ELSE LET mid == Len(arr) \div 2
         IN  IF Len(arr) % 2 = 0
             THEN (SortedAt(arr, mid - 1) + SortedAt(arr, mid)) \div 2
             ELSE SortedAt(arr, mid)

\* percentile(arr, p) with p in percent: index = (p/100)*(n-1), interpolated
percentile(arr, p) ==
    IF Len(arr) = 0 THEN Null
    ELSE LET idx100 == p * (Len(arr) - 1)
             lower  == idx100 \div 100
             rem    == idx100 % 100
             upper  == IF rem = 0 THEN lower ELSE lower + 1
         IN  (SortedAt(arr, lower) * (100 - rem) + SortedAt(arr, upper) * rem) \div 100

ewma(current, newValue, lambda_inv) ==
    IF current = Null THEN newValue
    ELSE ((lambda_inv - 1) * current + newValue) \div lambda_inv

RECURSIVE GCD(_, _)
GCD(a, b) == IF b = 0 THEN a ELSE GCD(b, a % b)

RECURSIVE GCDSeq(_)
GCDSeq(s) == IF s = <<>> THEN 0 ELSE GCD(Head(s), GCDSeq(Tail(s)))

\* floor of the square root
Isqrt(n) == CHOOSE r \in 0..46340 : r * r <= n /\ (r + 1) * (r + 1) > n

(***************************************************************************)
(* SensorCalibration                                                       *)
(***************************************************************************)
\* factoryCurve.points: [raw_value, theta]
factoryCurve == << <<250, 0>>, <<450, 1000>>, <<650, 2500>>, <<850, 4000>>, <<1000, 5000>> >>

\* lerp(y0, y1, t) with t = (raw - x0) / (x1 - x0)
lerp(y0, y1, tnum, tden) == y0 + ((y1 - y0) * tnum) \div tden

rawToVWC(raw) ==
    LET points == factoryCurve
        n == Len(points)
    IN  IF raw <= points[1][1] THEN points[1][2]
        ELSE IF raw >= points[n][1] THEN points[n][2]
        ELSE LET i == CHOOSE k \in 2..n :
                          /\ raw <= points[k][1]
                          /\ \A j \in 2..(k - 1) : raw > points[j][1]
             IN  lerp(points[i - 1][2], points[i][2],
                      raw - points[i - 1][1], points[i][1] - points[i - 1][1])

\* siteCorrection = { offset: 0, gain: 1.0 }
siteCorrection_apply(theta) == 1 * theta + 0

temperatureCorrection(theta, temp_c) == theta + a_temp * (temp_c - T_ref)

\* a conversion by one straight line through the end points of the curve,
\* without any clamping
calibrate_unclamped(raw, temp_c) ==
    temperatureCorrection(
        siteCorrection_apply(
            lerp(factoryCurve[1][2], factoryCurve[5][2],
                 raw - factoryCurve[1][1], factoryCurve[5][1] - factoryCurve[1][1])),
        temp_c)

calibrate(raw, temp_c) ==
    clamp(temperatureCorrection(siteCorrection_apply(rawToVWC(raw)), temp_c),
          theta_bound_lo, theta_bound_hi)

\* firmware/main.ino, calculateTheta: raw = rawAdc / 4.0 against the same
\* points, so rawAdc is compared with four times their raw values
calculateTheta(rawAdc, tempC) ==
    LET points == factoryCurve
        n == Len(points)
    IN  IF rawAdc <= 4 * points[1][1] THEN points[1][2]
        ELSE IF rawAdc >= 4 * points[n][1] THEN points[n][2]
        ELSE LET i == CHOOSE k \in 2..n :
                          /\ rawAdc <= 4 * points[k][1]
                          /\ \A j \in 2..(k - 1) : rawAdc > 4 * points[j][1]
                 theta == lerp(points[i - 1][2], points[i][2],
                               rawAdc - 4 * points[i - 1][1],
                               4 * (points[i][1] - points[i - 1][1]))
             IN  IF theta < 0 THEN 0 ELSE IF theta > 5000 THEN 5000 ELSE theta

\* z = |theta - mean| / (stdDev + 0.001) > spike_z_thresh over the last 5
\* thetas, with n = recent.length, S = sum, Q = sum of squares:
\*   |n*theta - S| - thresh*eps*n > thresh * sqrt(n*Q - S*S)
SpikeDetected(theta, history) ==
    /\ Len(history) >= 3
    /\ LET recent == Thetas(LastK(history, 5))
           n == Len(recent)
           S == SumSeq(recent)
           Q == SumSeq([i \in 1..n |-> recent[i] * recent[i]])
           W == n * Q - S * S
           a == Abs(n * theta - S) - spike_z_thresh * spike_eps * n
       IN  /\ a > 0
           /\ W <= (a * a - 1) \div (spike_z_thresh * spike_z_thresh)

SensorStuck(history) ==
    /\ Len(history) >= 10
    /\ LET recent == Thetas(LastK(history, 10))
       IN  MaxOf(recent) - MinOf(recent) < stuck_eps

\* a stuck sensor raises the flag but does not invalidate the reading
qualityControl_stuckStaysValid(theta, temp_c, history) ==
    LET flags ==
            (IF theta < theta_bound_lo \/ theta > theta_bound_hi
             THEN {"OUT_OF_BOUNDS"} ELSE {})
            \cup (IF SpikeDetected(theta, history) THEN {"SPIKE_DETECTED"} ELSE {})
            \cup (IF SensorStuck(history) THEN {"SENSOR_STUCK"} ELSE {})
            \cup (IF temp_c < temp_lo \/ temp_c > temp_hi
                  THEN {"TEMP_OUT_OF_RANGE"} ELSE {})
    IN  [valid |-> flags \ {"SENSOR_STUCK"} = {}, flags |-> flags]

qualityControl(theta, temp_c, history) ==
    LET flags ==
            (IF theta < theta_bound_lo \/ theta > theta_bound_hi
             THEN {"OUT_OF_BOUNDS"} ELSE {})
            \cup (IF SpikeDetected(theta, history) THEN {"SPIKE_DETECTED"} ELSE {})
            \cup (IF SensorStuck(history) THEN {"SENSOR_STUCK"} ELSE {})
            \cup (IF temp_c < temp_lo \/ temp_c > temp_hi
                  THEN {"TEMP_OUT_OF_RANGE"} ELSE {})
    IN  [valid |-> flags = {}, flags |-> flags]

(***************************************************************************)
(* SoilModel                                                               *)
(***************************************************************************)
\* availableWater(theta).fractionDepleted, in 1e-4; water depths in 0.01 mm
fractionDepleted(theta) ==
    LET TAW == ((soil_theta_fc - soil_theta_pwp) * rootDepth_cm * 10) \div 100
        AWr == ((theta - soil_theta_pwp) * rootDepth_cm * 10) \div 100
        AW  == IF AWr > 0 THEN AWr ELSE 0
        Dr  == TAW - AW
    IN  IF TAW > 0 THEN clamp((Dr * 10000) \div TAW, 0, 10000) ELSE 0

(***************************************************************************)
(* EventDetection                                                          *)
(***************************************************************************)
\* history.filter(h => h.timestamp >= start); timestamps ascend in history
Since(history, start) ==
    LET idx == {i \in 1..Len(history) : history[i].timestamp >= start}
    IN  [k \in 1..Cardinality(idx) |-> history[Len(history) - Cardinality(idx) + k]]

NullRate == [isnull |-> TRUE, num |-> 0, den |-> 1]

\* OLS slope of theta against hours, x = (timestamp - t0) / 3600.  With g the
\* greatest common divisor of the offsets in seconds and x' = offset / g, the
\* slope per hour is 3600 * (n*sumX'Y - sumX'*sumY) / (g * (n*sumX'2 - sumX'^2)).
\* Equal timestamps throughout (den = 0) give NaN, which compares like null.
\* the regression over windowData, whose timestamps lie offs seconds after the
\* first one; g0 is the greatest common divisor of offs
regression(windowData, offs, g0) ==
    LET n == Len(windowData)
        g == IF g0 = 0 THEN 1 ELSE g0
        c == GCD(3600, g)
        X == [i \in 1..n |-> offs[i] \div g]
        Y == [i \in 1..n |-> windowData[i].theta]
        sumX == SumSeq(X)
        sumY == SumSeq(Y)
        sumXY == SumSeq([i \in 1..n |-> X[i] * Y[i]])
        sumX2 == SumSeq([i \in 1..n |-> X[i] * X[i]])
        den == (g \div c) * (n * sumX2 - sumX * sumX)
    IN  IF den = 0 THEN NullRate
        ELSE [isnull |-> FALSE,
              num |-> (3600 \div c) * (n * sumXY - sumX * sumY),
              den |-> den]

\* calculateDryingRate once the window is cut out of the history
slopeOfWindow(windowData, offs) ==
    IF Len(windowData) < 3 THEN NullRate
    ELSE regression(windowData, offs, GCDSeq(offs))

calculateDryingRate(history) ==
    IF Len(history) < 3 THEN NullRate
    ELSE LET windowData == Since(history, history[Len(history)].timestamp - slope_window)
         IN  slopeOfWindow(windowData,
                           [i \in 1..Len(windowData) |->
                               windowData[i].timestamp - windowData[1].timestamp])

\* comparisons of a non-null slope r with the rational a/b (b > 0, r.den > 0)
RateGT(r, a, b) == r.num * b > a * r.den
RateLT(r, a, b) == r.num * b < a * r.den
RateAbsLT(r, a, b) == Abs(r.num) * b < a * r.den

\* a detector that accepts every rise of wet_jump_thresh, however soon after
\* the last accepted event
detectWetting_noSeparation(history, lastEventTime) ==
    LET none == [detected |-> FALSE, delta_theta |-> 0,
                 confidence |-> "insufficient_data", lastEventTime |-> lastEventTime]
    IN  IF Len(history) < 2 THEN none
        ELSE LET now == history[Len(history)].timestamp
                 recentData == Since(history, now - wet_window)
             IN  IF Len(recentData) < 2 THEN none
                 ELSE LET deltaTheta == recentData[Len(recentData)].theta - recentData[1].theta
                      IN  IF deltaTheta >= wet_jump_thresh
                          THEN [detected |-> TRUE, delta_theta |-> deltaTheta,
                                confidence |-> "high", lastEventTime |-> now]
                          ELSE [detected |-> FALSE, delta_theta |-> deltaTheta,
                                confidence |-> "below_threshold",
                                lastEventTime |-> lastEventTime]

\* detectWetting: [detected, delta_theta, confidence, lastEventTime after the call]
detectWetting(history, lastEventTime) ==
    LET none == [detected |-> FALSE, delta_theta |-> 0,
                 confidence |-> "insufficient_data", lastEventTime |-> lastEventTime]
    IN  IF Len(history) < 2 THEN none
        ELSE LET now == history[Len(history)].timestamp
                 recentData == Since(history, now - wet_window)
             IN  IF Len(recentData) < 2 THEN none
                 ELSE LET deltaTheta == recentData[Len(recentData)].theta - recentData[1].theta
                      IN  IF deltaTheta >= wet_jump_thresh
                          THEN IF lastEventTime # Null /\ lastEventTime # 0
                                  /\ (now - lastEventTime) < min_event_separation
                               THEN [detected |-> FALSE, delta_theta |-> deltaTheta,
                                     confidence |-> "too_soon_after_last_event",
                                     lastEventTime |-> lastEventTime]
                               ELSE [detected |-> TRUE, delta_theta |-> deltaTheta,
                                     confidence |-> "high", lastEventTime |-> now]
                          ELSE [detected |-> FALSE, delta_theta |-> deltaTheta,
                                confidence |-> "below_threshold",
                                lastEventTime |-> lastEventTime]

detectFCPlateau(history) ==
    IF Len(history) < 20
    THEN [detected |-> FALSE, theta_fc_candidate |-> Null, confidence |-> "insufficient_data"]
    ELSE LET dryingRate == calculateDryingRate(history)
         IN  IF dryingRate.isnull
             THEN [detected |-> FALSE, theta_fc_candidate |-> Null,
                   confidence |-> "cannot_calculate_rate"]
             ELSE IF RateAbsLT(dryingRate, s_min_num, s_min_den)
             THEN LET now == history[Len(history)].timestamp
                      plateauData == Since(history, now - hold_hours * 3600)
                  IN  IF Len(plateauData) < 10
                      THEN [detected |-> FALSE, theta_fc_candidate |-> Null,
                            confidence |-> "plateau_too_short"]
                      ELSE [detected |-> TRUE,
                            theta_fc_candidate |-> median(Thetas(plateauData)),
                            confidence |-> "high"]
             ELSE [detected |-> FALSE, theta_fc_candidate |-> Null,
                   confidence |-> "still_draining"]

\* the branches of classifyRegime on the slope and the current theta
regimeOf(dryingRate, currentTheta, theta_fc) ==
    IF dryingRate.isnull THEN "unknown"
    ELSE IF RateGT(dryingRate, 10, 1) THEN "wetting"
    ELSE IF RateAbsLT(dryingRate, s_min_num, s_min_den) THEN "stable"
    ELSE IF theta_fc # Null
         THEN (IF currentTheta > theta_fc THEN "drainage" ELSE "drydown")
    ELSE IF dryingRate.num < 0 THEN "drydown" ELSE "stable"

classifyRegime(history, theta_fc) ==
    IF Len(history) < 5 THEN "unknown"
    ELSE regimeOf(calculateDryingRate(history), history[Len(history)].theta, theta_fc)

(***************************************************************************)
(* DynamicsModel                                                           *)
(* kd and ku come out of logarithms; the model keeps whether each still    *)
(* has its initial value or a fitted one, and takes the outcome of the     *)
(* final range check (0.001 <= kd <= 1.0, ku < 0.1) as an input of the     *)
(* tick (kdInRange, kuInRange).  theta_min is computed.                    *)
(***************************************************************************)
DynamicsModel_init == [kd |-> "init", ku |-> "init", beta |-> "init", theta_min |-> 500]

\* fitDrainageParameter returns a kd (not null)
fitDrainageParameter(drainageData, theta_fc, kdInRange) ==
    /\ Len(drainageData) >= 5
    /\ LET validPoints == {i \in 1..Len(drainageData) : drainageData[i].theta > theta_fc}
           n == Cardinality({i \in validPoints : drainageData[i].theta - theta_fc > 10})
       IN  Cardinality(validPoints) >= 5 /\ n >= 5
    /\ kdInRange

\* fitDrydownParameters: [ok, theta_min]
fitDrydownParameters(drydownData, kuInRange) ==
    IF Len(drydownData) < 10 THEN [ok |-> FALSE, theta_min |-> Null]
    ELSE LET theta0 == drydownData[1].theta
             theta_end == drydownData[Len(drydownData)].theta
             t_end == drydownData[Len(drydownData)].timestamp - drydownData[1].timestamp
             theta_min == MinOf(Thetas(drydownData)) - 100
         IN  IF /\ theta_end > theta_min /\ theta0 > theta_min /\ t_end > 0
                \* ku > 0: the logarithm's argument is below 1
                /\ theta_end - theta_min < theta0 - theta_min
                /\ kuInRange
             THEN [ok |-> TRUE, theta_min |-> theta_min]
             ELSE [ok |-> FALSE, theta_min |-> Null]

(***************************************************************************)
(* AutoCalibration                                                         *)
(***************************************************************************)
States == {"INIT", "BASELINE_MONITORING", "WETTING_EVENT", "DRAINAGE_TRACKING",
           "FC_ESTIMATE", "DRYDOWN_FIT", "NORMAL_OPERATION"}

\* the constructor; confidence 0.2
AutoCalibration_init ==
    [state |-> "INIT",
     theta_fc_star |-> Null,
     theta_refill_star |-> Null,
     fc_history |-> <<>>,
     confidence |-> 2000,
     n_events |-> 0,
     n_fc_updates |-> 0,
     qc_pass_count |-> 0,
     qc_total_count |-> 0,
     currentEventStart |-> Null,
     fc_candidate |-> Null,
     simulationMode |-> FALSE]

\* theta_fc_star - eta_refill * (theta_fc_star - theta_dry)
RefillFrom(theta_fc, theta_dry) ==
    theta_fc - (theta_fc - theta_dry) \div eta_refill_inv

minSamples(simulationMode) == IF simulationMode THEN 10 ELSE 96

state_init(cal, history) ==
    IF Len(history) < minSamples(cal.simulationMode) THEN cal
    ELSE LET theta_dry == percentile(Thetas(history), theta_dry_percentile)
         IN  [cal EXCEPT !.theta_fc_star = soil_theta_fc,
                         !.theta_refill_star = RefillFrom(soil_theta_fc, theta_dry),
                         !.state = "BASELINE_MONITORING",
                         !.n_fc_updates = @ + 1]

\* the handlers that call detectWetting return the calibration and the
\* detector's lastEventTime
state_baseline(cal, lastEventTime, dataPoint, history) ==
    LET wetting == detectWetting(history, lastEventTime)
        c1 == IF wetting.detected
              THEN [cal EXCEPT !.n_events = @ + 1,
                               !.state = "WETTING_EVENT",
                               !.currentEventStart = dataPoint.timestamp]
              ELSE cal
        recentTheta == Thetas(LastK(history, 5))
        c2 == IF /\ cal.simulationMode
                 /\ Len(history) >= 5
                 /\ recentTheta[Len(recentTheta)] - recentTheta[1] > 300
              THEN [c1 EXCEPT !.n_events = @ + 1,
                              !.state = "WETTING_EVENT",
                              !.currentEventStart = dataPoint.timestamp]
              ELSE c1
    IN  [cal |-> c2, lastEventTime |-> wetting.lastEventTime]

\* a wetting event that falls back to baseline once the ignore period is over
state_wetting_toBaseline(cal, dataPoint) ==
    IF dataPoint.timestamp - cal.currentEventStart > post_event_ignore
    THEN [cal EXCEPT !.state = "BASELINE_MONITORING"]
    ELSE cal

state_wetting(cal, dataPoint) ==
    IF dataPoint.timestamp - cal.currentEventStart > post_event_ignore
    THEN [cal EXCEPT !.state = "DRAINAGE_TRACKING"]
    ELSE cal

\* the two tests of state_drainage on the plateau and the regime
\* gives up on the event whenever the regime is no longer drainage
drainageNext_unlessDrainage(cal, plateau, regime) ==
    LET c1 == IF plateau.detected
              THEN [cal EXCEPT !.state = "FC_ESTIMATE",
                               !.fc_candidate = plateau.theta_fc_candidate]
              ELSE cal
    IN  IF regime # "drainage" THEN [c1 EXCEPT !.state = "NORMAL_OPERATION"] ELSE c1

\* adopts the plateau as theta_fc_star at once
drainageNext_adoptsCandidate(cal, plateau, regime) ==
    LET c1 == IF plateau.detected
              THEN [cal EXCEPT !.state = "FC_ESTIMATE",
                               !.fc_candidate = plateau.theta_fc_candidate,
                               !.theta_fc_star = plateau.theta_fc_candidate]
              ELSE cal
    IN  IF regime = "drydown" THEN [c1 EXCEPT !.state = "NORMAL_OPERATION"] ELSE c1

drainageNext(cal, plateau, regime) ==
    LET c1 == IF plateau.detected
              THEN [cal EXCEPT !.state = "FC_ESTIMATE",
                               !.fc_candidate = plateau.theta_fc_candidate]
              ELSE cal
    IN  IF regime = "drydown" THEN [c1 EXCEPT !.state = "NORMAL_OPERATION"] ELSE c1

state_drainage(cal, history) ==
    drainageNext(cal, detectFCPlateau(history), classifyRegime(history, cal.theta_fc_star))

\* forgets the threshold when the window holds too few samples
updateRefillThreshold_resets(cal, history) ==
    LET now == history[Len(history)].timestamp
        recentData == Since(history, now - theta_dry_window * 86400)
    IN  IF Len(recentData) > 100
        THEN [cal EXCEPT !.theta_refill_star =
                  RefillFrom(cal.theta_fc_star,
                             percentile(Thetas(recentData), theta_dry_percentile))]
        ELSE [cal EXCEPT !.theta_refill_star = Null]

updateRefillThreshold(cal, history) ==
    LET now == history[Len(history)].timestamp
        recentData == Since(history, now - theta_dry_window * 86400)
    IN  IF Len(recentData) > 100
        THEN [cal EXCEPT !.theta_refill_star =
                  RefillFrom(cal.theta_fc_star,
                             percentile(Thetas(recentData), theta_dry_percentile))]
        ELSE cal

\* the most recent run of consecutive indices in J, as a segment of the
\* history, or <<>> (null) when it is shorter than minLen
lastRun(history, J, minLen) ==
    IF J = {} THEN <<>>
    ELSE LET last == CHOOSE i \in J : \A j \in J : j <= i
             first == CHOOSE f \in J :
                          /\ f <= last
                          /\ \A k \in f..last : k \in J
                          /\ (f - 1) \notin J
         IN  IF last - first + 1 >= minLen THEN SubSeq(history, first, last) ELSE <<>>

\* the most recent run of consecutive points whose prefix classifies as `regime`
extractSegment(history, theta_fc, regime, minLen) ==
    lastRun(history,
            {i \in 1..Len(history) :
                classifyRegime(SubSeq(history, 1, i), theta_fc) = regime},
            minLen)

extractDrainageSegment(history, theta_fc) == extractSegment(history, theta_fc, "drainage", 5)

extractDrydownSegment(history, theta_fc) == extractSegment(history, theta_fc, "drydown", 10)

\* returns the calibration and the dynamics parameters
state_fc_estimate(cal, dyn, history, kdInRange) ==
    LET fc == IF cal.theta_fc_star = Null THEN cal.fc_candidate
              ELSE ewma(cal.theta_fc_star, cal.fc_candidate, fc_update_lambda_inv)
        c1 == [cal EXCEPT !.theta_fc_star = fc,
                          !.fc_history = Append(@, fc),
                          !.n_fc_updates = @ + 1]
        c2 == updateRefillThreshold(c1, history)
        drainageData == extractDrainageSegment(history, c2.theta_fc_star)
        d2 == IF Len(drainageData) >= 5
                 /\ fitDrainageParameter(drainageData, c2.theta_fc_star, kdInRange)
              THEN [dyn EXCEPT !.kd = "fitted"]
              ELSE dyn
    IN  [cal |-> [c2 EXCEPT !.state = "DRYDOWN_FIT"], dyn |-> d2]

\* stays in DRYDOWN_FIT until a drydown fit has succeeded
state_drydown_fit_waitsForFit(cal, dyn, history, kuInRange) ==
    LET regime == classifyRegime(history, cal.theta_fc_star)
        drydownData == IF regime = "drydown"
                       THEN extractDrydownSegment(history, cal.theta_fc_star)
                       ELSE <<>>
        params == fitDrydownParameters(drydownData, kuInRange)
        fitted == regime = "drydown" /\ Len(drydownData) >= 10 /\ params.ok
        d2 == IF fitted
              THEN [dyn EXCEPT !.ku = "fitted", !.beta = "fitted",
                               !.theta_min = params.theta_min]
              ELSE dyn
    IN  [cal |-> IF fitted THEN [cal EXCEPT !.state = "NORMAL_OPERATION"] ELSE cal,
         dyn |-> d2]

state_drydown_fit(cal, dyn, history, kuInRange) ==
    LET regime == classifyRegime(history, cal.theta_fc_star)
        drydownData == IF regime = "drydown"
                       THEN extractDrydownSegment(history, cal.theta_fc_star)
                       ELSE <<>>
        params == fitDrydownParameters(drydownData, kuInRange)
        d2 == IF regime = "drydown" /\ Len(drydownData) >= 10 /\ params.ok
              THEN [dyn EXCEPT !.ku = "fitted", !.beta = "fitted",
                               !.theta_min = params.theta_min]
              ELSE dyn
    IN  [cal |-> [cal EXCEPT !.state = "NORMAL_OPERATION"], dyn |-> d2]

state_normal(cal, lastEventTime, dataPoint, history) ==
    LET wetting == detectWetting(history, lastEventTime)
    IN  [cal |-> IF wetting.detected
                 THEN [cal EXCEPT !.n_events = @ + 1,
                                  !.state = "WETTING_EVENT",
                                  !.currentEventStart = dataPoint.timestamp]
                 ELSE cal,
         lastEventTime |-> wetting.lastEventTime]

stateBonus(state) ==
    CASE state = "INIT" -> 0
      [] state = "BASELINE_MONITORING" -> 500
      [] state = "WETTING_EVENT" -> 1000
      [] state = "DRAINAGE_TRACKING" -> 1500
      [] state = "FC_ESTIMATE" -> 2000
      [] state = "DRYDOWN_FIT" -> 2000
      [] state = "NORMAL_OPERATION" -> 2500
      [] OTHER -> 0

\* std(fc_history) in theta units: sqrt(n*Q - S*S) / n
std(arr) ==
    IF Len(arr) = 0 THEN 0
    ELSE LET n == Len(arr)
             S == SumSeq(arr)
             Q == SumSeq([i \in 1..n |-> arr[i] * arr[i]])
         IN  Isqrt(n * Q - S * S) \div n

\* Math.exp(-fc_std / 0.02) in 1e-4, by exp(-x) ~ 1 / (1 + x + x*x/2) with
\* x = fc_std / 200 (an approximation: in (0, 1], 1 at 0, decreasing)
stabilityDecay(fc_std) == 800000000 \div (80000 + 400 * fc_std + fc_std * fc_std)

\* the weighted sum and the state bonus stored as they are
updateConfidence_noClamp(cal) ==
    LET eventTarget == IF cal.simulationMode THEN 3 ELSE 8
        nEv == IF cal.n_events < eventTarget THEN cal.n_events ELSE eventTarget
        eventScore == (10000 * nEv) \div eventTarget
        stabilityScore ==
            IF Len(cal.fc_history) >= 3 THEN stabilityDecay(std(cal.fc_history))
            ELSE IF Len(cal.fc_history) > 0
                 THEN 6000 + (2000 * Len(cal.fc_history)) \div 3
            ELSE 5000
        qcScore == IF cal.qc_total_count > 0
                   THEN (10000 * cal.qc_pass_count) \div cal.qc_total_count
                   ELSE 5000
        nTot == IF cal.qc_total_count < 50 THEN cal.qc_total_count ELSE 50
        dataScore == IF cal.qc_total_count > 0 THEN (10000 * nTot) \div 50 ELSE 3000
        sum == (40 * eventScore + 25 * stabilityScore + 20 * qcScore + 15 * dataScore) \div 100
               + stateBonus(cal.state)
    IN  [cal EXCEPT !.confidence = sum]

updateConfidence(cal) ==
    LET eventTarget == IF cal.simulationMode THEN 3 ELSE 8
        nEv == IF cal.n_events < eventTarget THEN cal.n_events ELSE eventTarget
        eventScore == (10000 * nEv) \div eventTarget
        stabilityScore ==
            IF Len(cal.fc_history) >= 3 THEN stabilityDecay(std(cal.fc_history))
            ELSE IF Len(cal.fc_history) > 0
                 THEN 6000 + (2000 * Len(cal.fc_history)) \div 3
            ELSE 5000
        qcScore == IF cal.qc_total_count > 0
                   THEN (10000 * cal.qc_pass_count) \div cal.qc_total_count
                   ELSE 5000
        nTot == IF cal.qc_total_count < 50 THEN cal.qc_total_count ELSE 50
        dataScore == IF cal.qc_total_count > 0 THEN (10000 * nTot) \div 50 ELSE 3000
        sum == (40 * eventScore + 25 * stabilityScore + 20 * qcScore + 15 * dataScore) \div 100
               + stateBonus(cal.state)
    IN  [cal EXCEPT !.confidence = clamp(sum, 0, 10000)]

\* the switch of update on the state, run on the calibration c0 whose
\* counters are already incremented: [cal, lastEventTime, dyn]
update_switch(c0, lastEventTime, dyn, dataPoint, history, kdInRange, kuInRange) ==
    CASE c0.state = "INIT" ->
            [cal |-> state_init(c0, history),
             lastEventTime |-> lastEventTime, dyn |-> dyn]
      [] c0.state = "BASELINE_MONITORING" ->
            state_baseline(c0, lastEventTime, dataPoint, history) @@ [dyn |-> dyn]
      [] c0.state = "WETTING_EVENT" ->
            [cal |-> state_wetting(c0, dataPoint),
             lastEventTime |-> lastEventTime, dyn |-> dyn]
      [] c0.state = "DRAINAGE_TRACKING" ->
            [cal |-> state_drainage(c0, history),
             lastEventTime |-> lastEventTime, dyn |-> dyn]
      [] c0.state = "FC_ESTIMATE" ->
            state_fc_estimate(c0, dyn, history, kdInRange)
                @@ [lastEventTime |-> lastEventTime]
      [] c0.state = "DRYDOWN_FIT" ->
            state_drydown_fit(c0, dyn, history, kuInRange)
                @@ [lastEventTime |-> lastEventTime]
      [] c0.state = "NORMAL_OPERATION" ->
            state_normal(c0, lastEventTime, dataPoint, history) @@ [dyn |-> dyn]

\* the last line of update: this.updateConfidence()
update_confidence(r) == [r EXCEPT !.cal = updateConfidence(r.cal)]

\* AutoCalibration.update: [cal, lastEventTime, dyn]
update(cal, lastEventTime, dyn, dataPoint, history, kdInRange, kuInRange) ==
    update_confidence(
        update_switch([cal EXCEPT !.qc_total_count = @ + 1,
                                  !.qc_pass_count = IF dataPoint.qc_valid THEN @ + 1 ELSE @],
                      lastEventTime, dyn, dataPoint, history, kdInRange, kuInRange))

(***************************************************************************)
(* PhysicsEngine                                                           *)
(***************************************************************************)
\* JavaScript truthiness of a nullable number: null and 0 are falsy
Truthy(x) == x # Null /\ x # 0

\* `dryingRate && dryingRate < a/b`: a null or zero rate is falsy
RateBelow(dryingRate, a, b) ==
    /\ ~dryingRate.isnull
    /\ dryingRate.num # 0
    /\ RateLT(dryingRate, a, b)

\* a status engine whose first test looks at theta_fc instead of theta_refill
getIrrigationStatus_testsFc(theta, theta_fc, theta_refill, dryingRate) ==
    IF ~Truthy(theta_fc)
    THEN [state |-> "UNKNOWN", urgency |-> "none"]
    ELSE IF theta < theta_refill - refill_hysteresis
    THEN [state |-> "REFILL", urgency |-> "high"]
    ELSE IF theta >= theta_fc
    THEN [state |-> "FULL", urgency |-> "none"]
    ELSE [state |-> "OPTIMAL", urgency |-> "low"]

\* a status engine that compares theta with theta_refill itself, without the
\* hysteresis margin
getIrrigationStatus_noBand(theta, theta_fc, theta_refill, dryingRate) ==
    IF ~Truthy(theta_refill)
    THEN [state |-> "UNKNOWN", urgency |-> "none"]
    ELSE IF theta < theta_refill
    THEN [state |-> "REFILL", urgency |-> "high"]
    ELSE IF theta >= theta_fc
    THEN [state |-> "FULL", urgency |-> "none"]
    ELSE [state |-> "OPTIMAL", urgency |-> "low"]

\* a status engine that leaves out the moderate drying trend below theta_fc
getIrrigationStatus_noTrend(theta, theta_fc, theta_refill, dryingRate) ==
    IF ~Truthy(theta_refill)
    THEN [state |-> "UNKNOWN", urgency |-> "none"]
    ELSE IF theta < theta_refill - refill_hysteresis
    THEN [state |-> "REFILL", urgency |-> "high"]
    ELSE IF RateBelow(dryingRate, -20, 1) /\ 10 * theta < 9 * theta_fc
    THEN [state |-> "MONITOR", urgency |-> "medium"]
    ELSE IF theta >= theta_fc
    THEN [state |-> "FULL", urgency |-> "none"]
    ELSE [state |-> "OPTIMAL", urgency |-> "low"]

getIrrigationStatus(theta, theta_fc, theta_refill, dryingRate) ==
    IF ~Truthy(theta_refill)
    THEN [state |-> "UNKNOWN", urgency |-> "none"]
    ELSE IF theta < theta_refill - refill_hysteresis
    THEN [state |-> "REFILL", urgency |-> "high"]
    ELSE IF RateBelow(dryingRate, -20, 1) /\ 10 * theta < 9 * theta_fc
    THEN [state |-> "MONITOR", urgency |-> "medium"]
    ELSE IF theta < theta_fc /\ theta >= theta_refill - refill_hysteresis
    THEN (IF RateBelow(dryingRate, -5, 1)
          THEN [state |-> "MONITOR", urgency |-> "medium"]
          ELSE [state |-> "OPTIMAL", urgency |-> "low"])
    ELSE IF theta >= theta_fc
    THEN [state |-> "FULL", urgency |-> "none"]
    ELSE [state |-> "OPTIMAL", urgency |-> "low"]

\* the derived fields of the returned object that the persistence layer names
calculateMetrics(dataPoint, cal, history) ==
    LET theta_fc == IF Truthy(cal.theta_fc_star) THEN cal.theta_fc_star ELSE soil_theta_fc
        theta_refill == cal.theta_refill_star
        dryingRate == calculateDryingRate(history)
        status == getIrrigationStatus(dataPoint.theta, theta_fc, theta_refill, dryingRate)
    IN  [theta_fc |-> theta_fc,
         theta_refill |-> theta_refill,
         fractionDepleted |-> fractionDepleted(dataPoint.theta),
         dryingRate_per_hr |-> dryingRate,
         regime |-> classifyRegime(history, theta_fc),
         status |-> status.state,
         urgency |-> status.urgency,
         confidence |-> cal.confidence,
         calibration_state |-> cal.state]

\* Step 5 of processSensorReading: the state machine runs on valid samples only
UpdateGate_always(qc_valid) == TRUE

UpdateGate(qc_valid) == qc_valid

\* Step 4: push, then drop the oldest beyond maxHistoryLength
PushHistory_dropsNewest(history, dataPoint) ==
    LET h == Append(history, dataPoint)
    IN  IF Len(h) > maxHistoryLength THEN SubSeq(h, 1, Len(h) - 1) ELSE h

PushHistory(history, dataPoint) ==
    LET h == Append(history, dataPoint)
    IN  IF Len(h) > maxHistoryLength THEN Tail(h) ELSE h

\* Step 6 and the return: the engine after the call and the returned object
\* { ...dataPoint, ...metrics }
process_return(dataPoint, h, u) ==
    [engine |-> [history |-> h] @@ u,
     result |-> dataPoint @@ calculateMetrics(dataPoint, u.cal, h)]

\* Steps 4 and 5 on the data point of Step 3
process_dataPoint(e, dataPoint, kdInRange, kuInRange) ==
    LET h == PushHistory(e.history, dataPoint)
    IN  process_return(dataPoint, h,
            IF UpdateGate(dataPoint.qc_valid)
            THEN update(e.cal, e.lastEventTime, e.dyn, dataPoint, h, kdInRange, kuInRange)
            ELSE [cal |-> e.cal, lastEventTime |-> e.lastEventTime, dyn |-> e.dyn])

\* processSensorReading on the engine e = [history, cal, lastEventTime, dyn]
processSensorReading(e, raw, temp_c, timestamp, kdInRange, kuInRange) ==
    LET theta == calibrate(raw, temp_c)
        qc == qualityControl(theta, temp_c, e.history)
    IN  process_dataPoint(e,
            [timestamp |-> timestamp, raw |-> raw, temp_c |-> temp_c,
             theta |-> theta, qc_valid |-> qc.valid, qc_flags |-> qc.flags],
            kdInRange, kuInRange)

(***************************************************************************)
(* State                                                                   *)
(***************************************************************************)
VARIABLES
    history,          \* PhysicsEngine.history
    autoCalibration,  \* the AutoCalibration object
    lastEventTime,    \* EventDetection.lastEventTime
    dynamicsModel,    \* DynamicsModel.params
    result,           \* what the last processSensorReading returned (Null: none yet)
    prev,             \* the calibration before the last processSensorReading
    clock,            \* the timestamp of the last reading
    lastRaw,          \* the raw value of the last reading
    disturbances,     \* input changes spent so far
    script,           \* SpecWalk: the raw levels the probe signal has yet to move to
    fwPc,             \* firmware loop task: boot, halt, idle, begin, insert, commit
    dbOpen,           \* DBManager::init() succeeded
    jsLoaded,         \* setupJS() evaluated physics.js
    sampleBuffer,     \* the RAM batch buffer
    samples,          \* committed rows of table samples, in insertion order
    txnRows,          \* rows inserted in the open transaction, not yet committed
    writeIdx,         \* writeSampleBatch: index of the next sample to insert
    insertErrors,     \* "Insert Step Error" lines logged by the last writeSampleBatch
    lastBatch,        \* the batch handed to the last writeSampleBatch
    faults,           \* storage faults injected so far
    http,             \* the request the web server task is handling
    response,         \* the last HTTP response sent
    requests,         \* requests received so far
    restarts,         \* power cycles so far
    calibration,      \* rows of table calibration
    sdFiles,          \* firmware/main.ino: the files on the SD card
    settings,         \* App.state.settings: the thresholds derived from crop and soil
    forecast          \* a running compareIrrigationStrategies: its locals

engineVars == <<history, autoCalibration, lastEventTime, dynamicsModel, result, prev>>
envVars == <<clock, lastRaw, disturbances, script>>
fwVars == <<fwPc, dbOpen, jsLoaded, sampleBuffer, samples, txnRows, writeIdx,
            insertErrors, lastBatch, faults, http, response, requests, restarts,
            calibration, sdFiles, settings, forecast>>
vars == <<engineVars, envVars, fwVars>>

Engine == [history |-> history, cal |-> autoCalibration,
           lastEventTime |-> lastEventTime, dyn |-> dynamicsModel]

NoResult == [timestamp |-> Null]

(***************************************************************************)
(* Bounds of the explored inputs                                           *)
(***************************************************************************)
\* readings processed per run
MaxReadings == 12
\* input changes per run: a raw level other than the previous one, an
\* out-of-range temperature
MaxDisturbances == 1
\* raw ADC levels: theta 0.10, 0.13, 0.175, 0.25
RawSet == {450, 490, 550, 650}
\* probe temperatures: normal, out of range
TempSet == {25, 70}
\* sampling period, seconds (CONFIG.dt_resample, 15 minutes)
Cadence == 900

ZeroRate == [isnull |-> FALSE, num |-> 0, den |-> 1]

\* SampleData s = {}: every field zero, every String empty
SampleData_zero ==
    [timestamp |-> 0, raw_adc |-> 0, temp_c |-> 0, theta |-> 0, theta_fc |-> 0,
     theta_refill |-> 0, psi_kpa |-> "0", aw_mm |-> "0", fraction_depleted |-> 0,
     drying_rate |-> ZeroRate, regime |-> "", status |-> "", urgency |-> "",
     confidence |-> 0, qc_valid |-> FALSE, seq |-> 0]

HttpIdle == [pc |-> "idle", start |-> 0, end |-> 0]
NoResponse == [code |-> Null, kind |-> "none", latest |-> SampleData_zero, series |-> <<>>]

\* firmware/main.ino, initSDCard on an empty card: the default preferences
\* and the header line of physics_events.csv (rows: the lines after it)
initSDCard ==
    [user_prefs |-> "{\"onboarding_complete\":false}", physics_events |-> <<>>]

\* no call of compareIrrigationStrategies is running
NoForecast == [pc |-> "none"]

\* App.state.settings before any crop and soil is applied
NoSettings == [applied |-> FALSE]

InitFW ==
    /\ fwPc = "boot"
    /\ dbOpen = FALSE
    /\ jsLoaded = FALSE
    /\ sampleBuffer = <<>>
    /\ samples = <<>>
    /\ txnRows = <<>>
    /\ writeIdx = 0
    /\ insertErrors = 0
    /\ lastBatch = <<>>
    /\ faults = 0
    /\ http = HttpIdle
    /\ response = NoResponse
    /\ requests = 0
    /\ restarts = 0
    /\ calibration = <<>>
    /\ sdFiles = initSDCard
    /\ settings = NoSettings
    /\ forecast = NoForecast

InitEngine ==
    /\ InitFW
    /\ history = <<>>
    /\ autoCalibration = AutoCalibration_init
    /\ lastEventTime = Null
    /\ dynamicsModel = DynamicsModel_init
    /\ result = NoResult
    /\ prev = AutoCalibration_init
    /\ clock = 0
    /\ lastRaw = Null
    /\ disturbances = 0

Init ==
    /\ InitEngine
    /\ script = <<>>

\* the range-check outcomes matter only in the state that runs the fit
KdChoices == IF autoCalibration.state = "FC_ESTIMATE" THEN BOOLEAN ELSE {FALSE}
KuChoices == IF autoCalibration.state = "DRYDOWN_FIT" THEN BOOLEAN ELSE {FALSE}

\* one call Physics.processSensorReading(raw, temp_c, timestamp)
Reading(raw, temp_c, timestamp, kdInRange, kuInRange) ==
    \E r \in {processSensorReading(Engine, raw, temp_c, timestamp, kdInRange, kuInRange)} :
        /\ history' = r.engine.history
        /\ autoCalibration' = r.engine.cal
        /\ lastEventTime' = r.engine.lastEventTime
        /\ dynamicsModel' = r.engine.dyn
        /\ result' = r.result
        /\ prev' = autoCalibration
        /\ clock' = timestamp
        /\ lastRaw' = raw

Cost(raw, temp_c) ==
    (IF lastRaw # Null /\ raw # lastRaw THEN 1 ELSE 0)
    + (IF temp_c < temp_lo \/ temp_c > temp_hi THEN 1 ELSE 0)

ProcessSensorReading ==
    /\ Len(history) < MaxReadings
    /\ \E raw \in RawSet, temp_c \in TempSet :
          /\ disturbances + Cost(raw, temp_c) <= MaxDisturbances
          /\ disturbances' = disturbances + Cost(raw, temp_c)
          /\ UNCHANGED <<script, fwVars>>
          /\ \E kdInRange \in KdChoices, kuInRange \in KuChoices :
                Reading(raw, temp_c, clock + Cadence, kdInRange, kuInRange)

EnableSimulationMode ==
    /\ ~autoCalibration.simulationMode
    /\ autoCalibration' = [autoCalibration EXCEPT !.simulationMode = TRUE]
    /\ UNCHANGED <<history, lastEventTime, dynamicsModel, result, prev, envVars, fwVars>>

DisableSimulationMode ==
    /\ autoCalibration.simulationMode
    /\ autoCalibration' = [autoCalibration EXCEPT !.simulationMode = FALSE]
    /\ UNCHANGED <<history, lastEventTime, dynamicsModel, result, prev, envVars, fwVars>>

Next ==
    \/ ProcessSensorReading
    \/ EnableSimulationMode
    \/ DisableSimulationMode

Spec == Init /\ [][Next]_vars

(***************************************************************************)
(* SpecWalk: the same engine driven deep into the calibration cycle.  The  *)
(* probe signal is piecewise constant: it starts at the first level of a   *)
(* profile and moves to the next level at times the environment chooses.   *)
(* Simulation mode may be switched on before the first reading only.       *)
(***************************************************************************)
WalkMaxReadings == 27
WalkCadence == 3000
Profiles == { <<450, 490, 450, 490>>, <<650, 600, 650, 550>> }
WalkTemp == 25

InitWalk ==
    /\ InitEngine
    /\ script \in Profiles

WalkHold ==
    /\ Len(history) < WalkMaxReadings
    /\ lastRaw # Null
    /\ UNCHANGED <<disturbances, script, fwVars>>
    /\ \E kdInRange \in KdChoices, kuInRange \in KuChoices :
          Reading(lastRaw, WalkTemp, clock + WalkCadence, kdInRange, kuInRange)

WalkMove ==
    /\ Len(history) < WalkMaxReadings
    /\ script # <<>>
    /\ script' = Tail(script)
    /\ UNCHANGED <<disturbances, fwVars>>
    /\ \E kdInRange \in KdChoices, kuInRange \in KuChoices :
          Reading(Head(script), WalkTemp, clock + WalkCadence, kdInRange, kuInRange)

WalkEnableSimulationMode ==
    /\ history = <<>>
    /\ EnableSimulationMode

NextWalk ==
    \/ WalkHold
    \/ WalkMove
    \/ WalkEnableSimulationMode

SpecWalk == InitWalk /\ [][NextWalk]_vars

(***************************************************************************)
(* SpecLong: a run at the configured cadence long enough for the window of *)
(* updateRefillThreshold to hold more than 100 samples.  The signal sits   *)
(* at one level with a noise of a few ADC counts (so that it is not taken  *)
(* for a stuck sensor) and moves once, at any moment, to a wetter level.   *)
(***************************************************************************)
MaxLongReadings == 112
LongLevels == <<450, 650>>
LongNoise == 3
LongTemp == 25

InitLong ==
    /\ InitEngine
    /\ script = Tail(LongLevels)

\* the next reading of a signal that alternates between its level and
\* LongNoise counts above it
Dither(raw) == IF raw \in {LongLevels[i] : i \in 1..Len(LongLevels)}
               THEN raw + LongNoise ELSE raw - LongNoise

LongHold ==
    /\ Len(history) < MaxLongReadings
    /\ UNCHANGED <<disturbances, script, fwVars>>
    /\ \E kdInRange \in KdChoices, kuInRange \in KuChoices :
          Reading(IF lastRaw = Null THEN Head(LongLevels) ELSE Dither(lastRaw),
                  LongTemp, clock + Cadence, kdInRange, kuInRange)

LongMove ==
    /\ Len(history) < MaxLongReadings
    /\ lastRaw # Null
    /\ script # <<>>
    /\ script' = Tail(script)
    /\ UNCHANGED <<disturbances, fwVars>>
    /\ \E kdInRange \in KdChoices, kuInRange \in KuChoices :
          Reading(Head(script), LongTemp, clock + Cadence, kdInRange, kuInRange)

LongEnableSimulationMode ==
    /\ history = <<>>
    /\ EnableSimulationMode

NextLong ==
    \/ LongHold
    \/ LongMove
    \/ LongEnableSimulationMode

SpecLong == InitLong /\ [][NextLong]_vars

(***************************************************************************)
(* SpecDrain: one irrigation seen tick by tick in simulation mode: a noisy *)
(* baseline, a jump to a peak, a steady drainage above theta_fc_star and a *)
(* noisy plateau.  The script holds the readings still to come.            *)
(***************************************************************************)
DrainBases == {450, 500}
DrainPeaks == {700, 720}
DrainSteps == {8, 10}
MaxDrainFlat == 14

Sample(raw, temp_c) == [raw |-> raw, temp_c |-> temp_c]

\* n readings at a level, every second one LongNoise counts above it
Flat(level, n) ==
    [i \in 1..n |-> Sample(level + (IF i % 2 = 0 THEN LongNoise ELSE 0), LongTemp)]

\* n readings falling by step counts per tick, at temperature temp_c
Decline(from, step, n, temp_c) == [i \in 1..n |-> Sample(from - step * i, temp_c)]

\* the plateau lasts PlateauTicks readings when readings with a failed
\* temperature probe follow it, so that the first of them arrives in
\* DRYDOWN_FIT: DrydownTicks readings falling below theta_fc_star, which
\* only enter the history, and one valid reading after them
PlateauTicks == 10
DrydownTicks == 20
DrydownStep == 12
ProbeFault == 70

DrydownTail(level) ==
    Decline(level, DrydownStep, DrydownTicks, ProbeFault)
        \o <<Sample(level - DrydownStep * (DrydownTicks + 1), LongTemp)>>

DrainProfile(base, peak, step, withTail) ==
    Flat(base, 10) \o <<Sample(peak, LongTemp)>> \o Decline(peak, step, 6, LongTemp)
        \o (IF withTail
            THEN Flat(peak - 6 * step, PlateauTicks) \o DrydownTail(peak - 6 * step)
            ELSE Flat(peak - 6 * step, MaxDrainFlat))

DrainProfiles ==
    {DrainProfile(base, peak, step, withTail) :
        base \in DrainBases, peak \in DrainPeaks, step \in DrainSteps,
        withTail \in BOOLEAN}

InitDrain ==
    /\ InitEngine
    /\ script \in DrainProfiles

DrainReading ==
    /\ script # <<>>
    /\ script' = Tail(script)
    /\ UNCHANGED <<disturbances, fwVars>>
    /\ \E kdInRange \in KdChoices, kuInRange \in KuChoices :
          Reading(Head(script).raw, Head(script).temp_c, clock + Cadence,
                  kdInRange, kuInRange)

DrainEnableSimulationMode ==
    /\ history = <<>>
    /\ EnableSimulationMode

NextDrain ==
    \/ DrainReading
    \/ DrainEnableSimulationMode

SpecDrain == InitDrain /\ [][NextDrain]_vars

(***************************************************************************)
(* SpecCompare: one call of PhysicsEngine.compareIrrigationStrategies, its *)
(* forward simulation taken one iteration of the while loop at a time.     *)
(* The call reads the calibration (theta_fc, theta_refill), the last theta *)
(* of the history and the parameters of the dynamics model; these are      *)
(* drawn from sets.  kd is kept in 1e-3 per hour (fitted values lie in     *)
(* [0.001, 1.0]) and ku in 1e-4 (fitted values lie in (0, 0.1)); beta is   *)
(* 1.0 in the constructor and in every fit.                                *)
(***************************************************************************)
dt == 6
maxHours == 720
root_depth_cm == 30

CompareAmounts == { <<20, 30, 40>>, <<0, 200>> }
\* the last theta of the history; Null: the history is empty
CompareThetas == {Null, 1000, 2500}
CompareRefills == {Null, 1327, 1890}
CompareKd == {kd_init, 1000}
CompareKu == {ku_init, 999}
CompareThetaMin == {500, 1500}

\* DynamicsModel.drainageRate times dt
drainageRate_dt(theta, theta_fc, kd) ==
    IF theta <= theta_fc THEN 0 ELSE (-kd * (theta - theta_fc) * dt) \div 1000

\* DynamicsModel.drydownRate times dt, beta = 1
drydownRate_dt(theta, ku, theta_min) ==
    IF theta <= theta_min THEN 0 ELSE (-ku * (theta - theta_min) * dt) \div 10000

\* a loop that trusts theta to reach theta_refill
loopTest_noCap(theta, theta_refill, hours) == theta > theta_refill

\* the test of the while loop
loopTest(theta, theta_refill, hours) == theta > theta_refill /\ hours < maxHours

InitCompare ==
    /\ InitEngine
    /\ script = <<>>

\* the call up to the first test of the while loop of the first amount
compareIrrigationStrategies ==
    /\ forecast.pc = "none"
    /\ \E amounts \in CompareAmounts, theta_current \in CompareThetas,
          theta_refill \in CompareRefills, kd \in CompareKd, ku \in CompareKu,
          theta_min \in CompareThetaMin :
          LET theta_fc == IF Truthy(autoCalibration.theta_fc_star)
                          THEN autoCalibration.theta_fc_star ELSE soil_theta_fc
              delta_theta == (amounts[1] * 10000) \div (root_depth_cm * 10)
              theta_after == IF theta_current + delta_theta < theta_s
                             THEN theta_current + delta_theta ELSE theta_s
          IN  IF theta_current = Null \/ ~Truthy(theta_refill)
              THEN forecast' = [pc |-> "done", strategies |-> <<>>, optimal |-> 0,
                                steps |-> 0]
              ELSE forecast' = [pc |-> "loop", amounts |-> amounts, idx |-> 1,
                                theta_current |-> theta_current,
                                theta_fc |-> theta_fc, theta_refill |-> theta_refill,
                                kd |-> kd, ku |-> ku, theta_min |-> theta_min,
                                theta_after |-> theta_after,
                                theta |-> theta_after, hours |-> 0, steps |-> 0,
                                strategies |-> <<>>]
    /\ UNCHANGED <<engineVars, envVars, fwPc, dbOpen, jsLoaded, sampleBuffer, samples,
                   txnRows, writeIdx, insertErrors, lastBatch, faults, http, response,
                   requests, restarts, calibration, sdFiles, settings>>

\* one iteration of the while loop
compare_step ==
    /\ forecast.pc = "loop"
    /\ loopTest(forecast.theta, forecast.theta_refill, forecast.hours)
    /\ LET rate_dt == IF forecast.theta > forecast.theta_fc
                      THEN drainageRate_dt(forecast.theta, forecast.theta_fc, forecast.kd)
                      ELSE drydownRate_dt(forecast.theta, forecast.ku, forecast.theta_min)
           next == forecast.theta + rate_dt
       IN  forecast' = [forecast EXCEPT
                           !.theta = IF next > forecast.theta_min THEN next
                                     ELSE forecast.theta_min,
                           !.hours = @ + dt,
                           !.steps = @ + 1]
    /\ UNCHANGED <<engineVars, envVars, fwPc, dbOpen, jsLoaded, sampleBuffer, samples,
                   txnRows, writeIdx, insertErrors, lastBatch, faults, http, response,
                   requests, restarts, calibration, sdFiles, settings>>

\* the loop of one amount ends: its strategy is recorded and the next amount
\* starts, or the optimal strategy is picked (the first that lasts 5 days,
\* else the last) and the call returns
compare_next ==
    /\ forecast.pc = "loop"
    /\ ~loopTest(forecast.theta, forecast.theta_refill, forecast.hours)
    /\ LET strategies == Append(forecast.strategies,
                                [amount_mm |-> forecast.amounts[forecast.idx],
                                 theta_after |-> forecast.theta_after,
                                 hours |-> forecast.hours])
           idx == forecast.idx + 1
       IN  IF idx <= Len(forecast.amounts)
           THEN LET delta_theta == (forecast.amounts[idx] * 10000) \div (root_depth_cm * 10)
                    theta_after == IF forecast.theta_current + delta_theta < theta_s
                                   THEN forecast.theta_current + delta_theta ELSE theta_s
                IN  forecast' = [forecast EXCEPT !.idx = idx,
                                                 !.strategies = strategies,
                                                 !.theta_after = theta_after,
                                                 !.theta = theta_after,
                                                 !.hours = 0,
                                                 !.steps = 0]
           ELSE LET lasting == {i \in 1..Len(strategies) : strategies[i].hours >= 5 * 24}
                    optimalIdx == IF lasting = {} THEN Len(strategies)
                                  ELSE CHOOSE i \in lasting : \A j \in lasting : i <= j
                IN  forecast' = [pc |-> "done", strategies |-> strategies,
                                 optimal |-> optimalIdx, steps |-> forecast.steps]
    /\ UNCHANGED <<engineVars, envVars, fwPc, dbOpen, jsLoaded, sampleBuffer, samples,
                   txnRows, writeIdx, insertErrors, lastBatch, faults, http, response,
                   requests, restarts, calibration, sdFiles, settings>>

NextCompare ==
    \/ compareIrrigationStrategies
    \/ compare_step
    \/ compare_next

\* the call runs to its end once started: JavaScript runs it without
\* interruption
SpecCompare == InitCompare /\ [][NextCompare]_vars /\ WF_vars(NextCompare)

(***************************************************************************)
(* SpecStatus: PhysicsEngine.getIrrigationStatus called on its own, as the  *)
(* public method it is, with arguments drawn from sets that lie on both    *)
(* sides of every threshold of the rules.                                  *)
(***************************************************************************)
\* theta: below, in and above the refill bands, around 0.9 theta_fc and theta_fc
StatusThetaSet == {1000, 1227, 1300, 1400, 1488, 1489, 1654, 1800, 1874, 2000, 2100}
StatusFcSet == {1654, 2000}
\* theta_refill: not calibrated yet, below theta_fc, above theta_fc
StatusRefillSet == {Null, 1327, 1974}
\* slopes per hour: none, flat, rising, and on both sides of -0.0005 and -0.002
StatusRateSet ==
    {NullRate, ZeroRate,
     [isnull |-> FALSE, num |-> 10, den |-> 1],
     [isnull |-> FALSE, num |-> -5, den |-> 1],
     [isnull |-> FALSE, num |-> -11, den |-> 2],
     [isnull |-> FALSE, num |-> -20, den |-> 1],
     [isnull |-> FALSE, num |-> -41, den |-> 2]}

\* one call Physics.getIrrigationStatus(theta, theta_fc, theta_refill, dryingRate);
\* the arguments are kept next to the returned state and urgency
GetIrrigationStatus ==
    /\ \E theta \in StatusThetaSet, theta_fc \in StatusFcSet,
          theta_refill \in StatusRefillSet, dryingRate \in StatusRateSet :
          \E st \in {getIrrigationStatus(theta, theta_fc, theta_refill, dryingRate)} :
             result' = [timestamp |-> 0, theta |-> theta, theta_fc |-> theta_fc,
                        theta_refill |-> theta_refill, dryingRate_per_hr |-> dryingRate,
                        status |-> st.state, urgency |-> st.urgency]
    /\ UNCHANGED <<history, autoCalibration, lastEventTime, dynamicsModel, prev,
                   envVars, fwVars>>

NextStatus == GetIrrigationStatus

SpecStatus == Init /\ [][NextStatus]_vars

(***************************************************************************)
(* SpecCalibrate: the conversion of a raw reading to theta on its own, in  *)
(* the engine (calibrate) and in firmware/main.ino (calculateTheta), over  *)
(* the 12-bit range of the ADC and temperatures in and out of range.       *)
(***************************************************************************)
\* raw readings: the ends of the ADC range, the points of the curve and
\* their neighbours, values between the points
CalRawSet == {0, 100, 249, 250, 251, 300, 450, 451, 600, 650, 849, 850, 999,
              1000, 1001, 1003, 2000, 3999, 4000, 4095}
\* temperatures: a disconnected probe (-127), below, in and above the range
CalTempSet == {-127, -40, -10, 0, 20, 25, 60, 85}

Calibrate ==
    /\ \E raw \in CalRawSet, temp_c \in CalTempSet :
          result' = [timestamp |-> 0, raw |-> raw, temp_c |-> temp_c,
                     theta |-> calibrate(raw, temp_c),
                     theta_ino |-> calculateTheta(raw, temp_c)]
    /\ UNCHANGED <<history, autoCalibration, lastEventTime, dynamicsModel, prev,
                   envVars, fwVars>>

NextCalibrate == Calibrate

SpecCalibrate == Init /\ [][NextCalibrate]_vars

(***************************************************************************)
(* SpecConfidence: updateConfidence on its own, over the fields it reads:  *)
(* the state, the simulation-mode flag, the event count, the history of    *)
(* theta_fc_star updates and the QC counters (passes never above total).   *)
(***************************************************************************)
MaxEvents == 9
ConfStates == {"INIT", "BASELINE_MONITORING", "WETTING_EVENT", "DRAINAGE_TRACKING",
               "FC_ESTIMATE", "DRYDOWN_FIT", "NORMAL_OPERATION"}
ConfFcHistories == {<<>>, <<1654>>, <<1654, 1700>>, <<1654, 1654, 1654>>,
                    <<1500, 1654, 1800>>, <<1000, 2500, 4000>>}
ConfQcTotals == {0, 1, 10, 49, 50, 60}
ConfQcPasses(total) == {0, total \div 2, total}

\* a calibration as update leaves it before its call of updateConfidence
InitConfidence ==
    /\ InitFW
    /\ history = <<>>
    /\ lastEventTime = Null
    /\ dynamicsModel = DynamicsModel_init
    /\ result = NoResult
    /\ prev = AutoCalibration_init
    /\ clock = 0
    /\ lastRaw = Null
    /\ disturbances = 0
    /\ script = <<>>
    /\ \E state \in ConfStates, sim \in BOOLEAN, n \in 0..MaxEvents,
          fc \in ConfFcHistories, total \in ConfQcTotals :
          \E pass \in ConfQcPasses(total) :
              autoCalibration = [AutoCalibration_init EXCEPT
                                    !.state = state,
                                    !.simulationMode = sim,
                                    !.n_events = n,
                                    !.fc_history = fc,
                                    !.n_fc_updates = Len(fc),
                                    !.qc_total_count = total,
                                    !.qc_pass_count = pass]

UpdateConfidence ==
    /\ autoCalibration' = updateConfidence(autoCalibration)
    /\ prev' = autoCalibration
    /\ UNCHANGED <<history, lastEventTime, dynamicsModel, result,
                   envVars, fwVars>>

NextConfidence == UpdateConfidence

SpecConfidence == InitConfidence /\ [][NextConfidence]_vars

(***************************************************************************)
(* SpecRing: one long run of readings at the configured cadence, long      *)
(* enough to fill the history past maxHistoryLength.                       *)
(***************************************************************************)
MaxRingReadings == 2882
RingRaw == 450
RingTemp == 25

RingReading ==
    /\ clock < MaxRingReadings * Cadence
    /\ UNCHANGED <<disturbances, script, fwVars>>
    /\ \E kdInRange \in KdChoices, kuInRange \in KuChoices :
          Reading(RingRaw, RingTemp, clock + Cadence, kdInRange, kuInRange)

NextRing == RingReading

SpecRing == Init /\ [][NextRing]_vars

(***************************************************************************)
(* SpecSeed: the engine of Spec with the application's crop and soil       *)
(* settings applied at any moment.  The contents of                        *)
(* config/crop_thresholds.json are inputs: a soil (theta_fc, theta_wp) and *)
(* the depletion fraction p of the crop stage, in percent.                 *)
(***************************************************************************)
\* a loam, and a soil with the engine's own default field capacity
SoilSet == { [theta_fc |-> 2700, theta_wp |-> 1200],
             [theta_fc |-> soil_theta_fc, theta_wp |-> soil_theta_pwp] }
StagePSet == {40, 55}

\* THRESHOLDS_STORE.getThresholds
getThresholds(soil, p) ==
    [theta_fc |-> soil.theta_fc,
     theta_wp |-> soil.theta_wp,
     p |-> p,
     theta_refill |-> soil.theta_fc - (p * (soil.theta_fc - soil.theta_wp)) \div 100]

\* Math.round(x * 100) of a value kept in 1e-4
RoundPercent(x) == (x + 50) \div 100

\* PhysicsEngine defines no configureCropSoil, and nothing adds one to the
\* Physics object
Physics_configureCropSoil == FALSE

\* App.applyThresholdConfig: the call of Physics.configureCropSoil is
\* guarded by the presence of that method
applyThresholdConfig ==
    /\ \E soil \in SoilSet, p \in StagePSet :
          \E thresholdConfig \in {getThresholds(soil, p)} :
              settings' = [applied |-> TRUE,
                           threshCritical |-> RoundPercent(thresholdConfig.theta_refill),
                           threshWarning |-> RoundPercent(thresholdConfig.theta_fc),
                           theta_fc |-> thresholdConfig.theta_fc,
                           theta_refill |-> thresholdConfig.theta_refill]
    /\ IF Physics_configureCropSoil
       THEN FALSE
       ELSE UNCHANGED engineVars
    /\ UNCHANGED <<envVars, fwPc, dbOpen, jsLoaded, sampleBuffer, samples, txnRows,
                   writeIdx, insertErrors, lastBatch, faults, http, response,
                   requests, restarts, calibration, sdFiles, forecast>>

NextSeed ==
    \/ ProcessSensorReading
    \/ EnableSimulationMode
    \/ DisableSimulationMode
    \/ applyThresholdConfig

SpecSeed == Init /\ [][NextSeed]_vars

(***************************************************************************)
(* SpecFW: the firmware of src/src/main.cpp with its DBManager.  Two tasks  *)
(* run concurrently: the loop task (sample, buffer, batch write) and the    *)
(* web server task (the /api handlers).  Both use the one sqlite3           *)
(* connection, so a query sees the rows of the open transaction.            *)
(***************************************************************************)
BATCH_SIZE == 6
\* "LIMIT 200" of getSamplesInRange
series_limit == 200
\* the loop samples every 10 s with a stubbed temperature of 25.0
loop_period == 10
loop_temp == 25

\* samples taken per run
MaxTicks == 7
\* storage faults (a failing sqlite3_step) per run
MaxInsertFaults == 1
\* HTTP requests per run
MaxRequests == 1
\* raw ADC levels read by the loop
FwRawSet == {450, 650}
\* values of the start and end parameters of /api/series
RangeParams == {0, 30, 2500}

\* runPhysics after a successful call: only theta, status, psi_kpa, aw_mm and
\* confidence are read from the returned object, which names the potential
\* psi_kPa and the water AW_mm, so that the two lookups yield undefined
runPhysics(raw, temp, ts, jsOk, res) ==
    LET s == [SampleData_zero EXCEPT !.timestamp = ts, !.raw_adc = raw, !.temp_c = temp]
    IN  IF jsOk
        THEN [s EXCEPT !.theta = res.theta,
                       !.status = res.status,
                       !.psi_kpa = "NaN",
                       !.aw_mm = "NaN",
                       !.confidence = res.confidence]
        ELSE s

\* what a query on the connection sees
Visible == IF dbOpen THEN samples \o txnRows ELSE <<>>

RECURSIVE SortByTimestamp(_)
SortByTimestamp(rows) ==
    IF rows = {} THEN <<>>
    ELSE LET m == CHOOSE r \in rows : \A q \in rows : r.timestamp <= q.timestamp
         IN  <<m>> \o SortByTimestamp(rows \ {m})

\* SELECT * FROM samples ORDER BY timestamp DESC LIMIT 1; eight columns are read
getLatestSample ==
    IF Visible = <<>> THEN SampleData_zero
    ELSE LET r == CHOOSE x \in {Visible[i] : i \in 1..Len(Visible)} :
                      \A i \in 1..Len(Visible) : Visible[i].timestamp <= x.timestamp
         IN  [SampleData_zero EXCEPT !.timestamp = r.timestamp, !.theta = r.theta,
                                     !.temp_c = r.temp_c, !.status = r.status,
                                     !.confidence = r.confidence, !.psi_kpa = r.psi_kpa,
                                     !.aw_mm = r.aw_mm, !.urgency = r.urgency]

\* a range query that leaves out LIMIT 200
getSamplesInRange_noLimit(start, end) ==
    LET hit == {Visible[i] : i \in 1..Len(Visible)}
        rows == SortByTimestamp({r \in hit : start <= r.timestamp /\ r.timestamp <= end})
    IN  [i \in 1..Len(rows) |->
            [SampleData_zero EXCEPT !.timestamp = rows[i].timestamp,
                                    !.theta = rows[i].theta]]

\* SELECT timestamp, theta ... BETWEEN ? AND ? ORDER BY timestamp ASC LIMIT 200
getSamplesInRange(start, end) ==
    LET hit == {Visible[i] : i \in 1..Len(Visible)}
        rows == SortByTimestamp({r \in hit : start <= r.timestamp /\ r.timestamp <= end})
        res == [i \in 1..Len(rows) |->
                   [SampleData_zero EXCEPT !.timestamp = rows[i].timestamp,
                                           !.theta = rows[i].theta]]
    IN  IF Len(res) > series_limit THEN SubSeq(res, 1, series_limit) ELSE res

\* setup(): a failed SD.begin() returns before the JS engine and the server
\* exist; a failed dbManager.init() is logged and setup goes on
setup ==
    /\ fwPc = "boot"
    /\ \E sdOk \in BOOLEAN, dbOk \in BOOLEAN, jsOk \in BOOLEAN :
          IF sdOk
          THEN /\ fwPc' = "idle"
               /\ dbOpen' = dbOk
               /\ jsLoaded' = jsOk
          ELSE /\ fwPc' = "halt"
               /\ UNCHANGED <<dbOpen, jsLoaded>>
    /\ UNCHANGED <<engineVars, envVars, restarts, calibration, settings, forecast, sdFiles,
                   sampleBuffer, samples, txnRows, writeIdx,
                   insertErrors, lastBatch, faults, http, response, requests>>

\* a batch buffer that takes only the samples that passed quality control
push_back_validOnly(buffer, s) == IF s.qc_valid THEN Append(buffer, s) ELSE buffer

\* sampleBuffer.push_back(s)
push_back(buffer, s) == Append(buffer, s)

\* loop(), steps 1 to 3 and the test of step 4
loop(raws) ==
    /\ fwPc = "idle"
    /\ clock < MaxTicks * loop_period
    /\ \E raw \in raws :
          LET ts == clock + loop_period
          IN  /\ IF jsLoaded
                 THEN \E kdInRange \in KdChoices, kuInRange \in KuChoices :
                         Reading(raw, loop_temp, ts, kdInRange, kuInRange)
                 ELSE /\ clock' = ts
                      /\ lastRaw' = raw
                      /\ UNCHANGED engineVars
              /\ sampleBuffer' =
                    push_back(sampleBuffer, runPhysics(raw, loop_temp, ts, jsLoaded, result'))
    /\ fwPc' = IF Len(sampleBuffer') >= BATCH_SIZE THEN "begin" ELSE "idle"
    /\ UNCHANGED <<disturbances, script, restarts, calibration, settings, forecast, sdFiles,
                   dbOpen, jsLoaded, samples, txnRows, writeIdx,
                   insertErrors, lastBatch, faults, http, response, requests>>

loop_sample == loop(FwRawSet)

\* writeSampleBatch: executeSQL("BEGIN TRANSACTION;")
writeSampleBatch_begin ==
    /\ fwPc = "begin"
    /\ fwPc' = "insert"
    /\ writeIdx' = 1
    /\ insertErrors' = 0
    /\ lastBatch' = sampleBuffer
    /\ UNCHANGED <<engineVars, envVars, restarts, calibration, settings, forecast, sdFiles,
                   dbOpen, jsLoaded, sampleBuffer, samples, txnRows,
                   faults, http, response, requests>>

\* writeSampleBatch: one turn of the loop over the samples.  The step fails
\* without a database, on a storage fault, and on a timestamp already in the
\* table (PRIMARY KEY); a failed step is logged and the loop goes on
writeSampleBatch_insert ==
    /\ fwPc = "insert"
    /\ \E stepOk \in BOOLEAN :
          LET s == sampleBuffer[writeIdx]
              duplicate == \E i \in 1..Len(Visible) : Visible[i].timestamp = s.timestamp
              done == dbOpen /\ stepOk /\ ~duplicate
          IN  /\ ~stepOk => faults < MaxInsertFaults
              /\ faults' = IF stepOk THEN faults ELSE faults + 1
              /\ txnRows' = IF done THEN Append(txnRows, s) ELSE txnRows
              /\ insertErrors' = IF done THEN insertErrors ELSE insertErrors + 1
    /\ writeIdx' = writeIdx + 1
    /\ fwPc' = IF writeIdx >= Len(sampleBuffer) THEN "commit" ELSE "insert"
    /\ UNCHANGED <<engineVars, envVars, restarts, calibration, settings, forecast, sdFiles,
                   dbOpen, jsLoaded, sampleBuffer, samples,
                   lastBatch, http, response, requests>>

\* writeSampleBatch: executeSQL("COMMIT;"), return true; then loop() clears
\* the buffer whatever the write did
writeSampleBatch_commit ==
    /\ fwPc = "commit"
    /\ samples' = samples \o txnRows
    /\ txnRows' = <<>>
    /\ sampleBuffer' = <<>>
    /\ fwPc' = "idle"
    /\ UNCHANGED <<engineVars, envVars, restarts, calibration, settings, forecast, sdFiles,
                   dbOpen, jsLoaded, writeIdx, insertErrors,
                   lastBatch, faults, http, response, requests>>

\* a request reaches the web server task; no lock is taken
http_request ==
    /\ fwPc \notin {"boot", "halt"}
    /\ http.pc = "idle"
    /\ requests < MaxRequests
    /\ requests' = requests + 1
    /\ \/ http' = [pc |-> "current", start |-> 0, end |-> 0]
       \/ \E start \in RangeParams, end \in RangeParams :
             http' = [pc |-> "series", start |-> start, end |-> end]
    /\ UNCHANGED <<engineVars, envVars, restarts, calibration, settings, forecast, sdFiles,
                   fwPc, dbOpen, jsLoaded, sampleBuffer, samples,
                   txnRows, writeIdx, insertErrors, lastBatch, faults, response>>

\* GET /api/current
api_current ==
    /\ http.pc = "current"
    /\ response' = [code |-> 200, kind |-> "current",
                    latest |-> getLatestSample, series |-> <<>>]
    /\ http' = HttpIdle
    /\ UNCHANGED <<engineVars, envVars, restarts, calibration, settings, forecast, sdFiles,
                   fwPc, dbOpen, jsLoaded, sampleBuffer, samples,
                   txnRows, writeIdx, insertErrors, lastBatch, faults, requests>>

\* GET /api/series
api_series ==
    /\ http.pc = "series"
    /\ response' = [code |-> 200, kind |-> "series", latest |-> SampleData_zero,
                    series |-> getSamplesInRange(http.start, http.end)]
    /\ http' = HttpIdle
    /\ UNCHANGED <<engineVars, envVars, restarts, calibration, settings, forecast, sdFiles,
                   fwPc, dbOpen, jsLoaded, sampleBuffer, samples,
                   txnRows, writeIdx, insertErrors, lastBatch, faults, requests>>

NextFW ==
    \/ setup
    \/ loop_sample
    \/ writeSampleBatch_begin
    \/ writeSampleBatch_insert
    \/ writeSampleBatch_commit
    \/ http_request
    \/ api_current
    \/ api_series

SpecFW == Init /\ [][NextFW]_vars

\* SpecBatch: the loop task and its batch writes alone, no HTTP request
NextBatch ==
    \/ setup
    \/ loop_sample
    \/ writeSampleBatch_begin
    \/ writeSampleBatch_insert
    \/ writeSampleBatch_commit

SpecBatch == Init /\ [][NextBatch]_vars

(***************************************************************************)
(* SpecBoot: the firmware across power cycles.  The power can fail at any   *)
(* point; the SD card, that is the committed rows, is all that is kept:     *)
(* the globals are constructed anew and setup() runs again.                 *)
(***************************************************************************)
\* power cycles per run
MaxRestarts == 1
\* the raw ADC level read by the loop
BootRawSet == {450}

\* power off and on: the statics of main.cpp and the JS heap are gone, the
\* open transaction is rolled back by the journal, and the system time,
\* which nothing in the firmware sets, starts again from 0
restart ==
    /\ fwPc # "boot"
    /\ restarts < MaxRestarts
    /\ restarts' = restarts + 1
    /\ fwPc' = "boot"
    /\ dbOpen' = FALSE
    /\ jsLoaded' = FALSE
    /\ sampleBuffer' = <<>>
    /\ txnRows' = <<>>
    /\ writeIdx' = 0
    /\ insertErrors' = 0
    /\ lastBatch' = <<>>
    /\ http' = HttpIdle
    /\ history' = <<>>
    /\ autoCalibration' = AutoCalibration_init
    /\ lastEventTime' = Null
    /\ dynamicsModel' = DynamicsModel_init
    /\ result' = NoResult
    /\ prev' = AutoCalibration_init
    /\ clock' = 0
    /\ lastRaw' = Null
    /\ UNCHANGED <<disturbances, script, samples, faults, response, requests,
                   calibration, settings, forecast, sdFiles>>

loop_boot == loop(BootRawSet)

NextBoot ==
    \/ setup
    \/ loop_boot
    \/ writeSampleBatch_begin
    \/ writeSampleBatch_insert
    \/ writeSampleBatch_commit
    \/ restart

SpecBoot == Init /\ [][NextBoot]_vars

(***************************************************************************)
(* SpecSeries: the read API over a store that earlier runs have filled.    *)
(* The table holds any number of rows up to MaxRows, one per loop period,  *)
(* written in ascending or in descending order of timestamp.               *)
(***************************************************************************)
\* rows in table samples
MaxRows == 201

StoredRow(ts) == [SampleData_zero EXCEPT !.timestamp = ts, !.theta = 1000 + (ts % 7)]

StoreContents ==
    {[i \in 1..n |-> StoredRow(loop_period * (IF ascending THEN i ELSE n + 1 - i))] :
        n \in 0..MaxRows, ascending \in BOOLEAN}

InitSeries ==
    /\ fwPc = "idle"
    /\ dbOpen = TRUE
    /\ jsLoaded = TRUE
    /\ sampleBuffer = <<>>
    /\ samples \in StoreContents
    /\ txnRows = <<>>
    /\ writeIdx = 0
    /\ insertErrors = 0
    /\ lastBatch = <<>>
    /\ faults = 0
    /\ http = HttpIdle
    /\ response = NoResponse
    /\ requests = 0
    /\ restarts = 0
    /\ calibration = <<>>
    /\ sdFiles = initSDCard
    /\ settings = NoSettings
    /\ forecast = NoForecast
    /\ history = <<>>
    /\ autoCalibration = AutoCalibration_init
    /\ lastEventTime = Null
    /\ dynamicsModel = DynamicsModel_init
    /\ result = NoResult
    /\ prev = AutoCalibration_init
    /\ clock = 0
    /\ lastRaw = Null
    /\ disturbances = 0
    /\ script = <<>>

NextSeries ==
    \/ http_request
    \/ api_current
    \/ api_series

SpecSeries == InitSeries /\ [][NextSeries]_vars

(***************************************************************************)
(* SpecIno: the POST handlers of firmware/main.ino.  Its WebServer handles *)
(* one request at a time from loop(), so a handler is one step.             *)
(***************************************************************************)
\* POST requests per run
MaxPosts == 3
\* failing SD.open calls per run
MaxSdFaults == 1

EventBody ==
    "{\"timestamp\":\"t1\",\"event_type\":\"wetting\",\"details\":\"d\",\"cal_state\":\"INIT\"}"
PrefsBody == "{\"crop\":\"maize\"}"
\* request bodies: two JSON objects, a truncated object, plain text, nothing
PostBodies == {EventBody, PrefsBody, "{\"crop\":", "not json", ""}

\* doc[key].as<String>() of a member the document lacks
NoMember == "null"

\* deserializeJson(doc, body) on the bodies above: the error flag and the
\* four members handleApiLogEvent reads
deserializeJson(body) ==
    CASE body = EventBody ->
            [error |-> FALSE, timestamp |-> "t1", event_type |-> "wetting",
             details |-> "d", cal_state |-> "INIT"]
      [] body = PrefsBody ->
            [error |-> FALSE, timestamp |-> NoMember, event_type |-> NoMember,
             details |-> NoMember, cal_state |-> NoMember]
      [] OTHER ->
            [error |-> TRUE, timestamp |-> NoMember, event_type |-> NoMember,
             details |-> NoMember, cal_state |-> NoMember]

InoResponse(code, kind) ==
    [code |-> code, kind |-> kind, latest |-> SampleData_zero, series |-> <<>>]

\* a POST to /api/config or /api/log_event arrives with its body
post_request ==
    /\ http.pc = "idle"
    /\ requests < MaxPosts
    /\ requests' = requests + 1
    /\ \E route \in {"config_post", "log_event"}, body \in PostBodies :
          http' = [pc |-> route, body |-> body]
    /\ UNCHANGED <<engineVars, envVars, fwPc, dbOpen, jsLoaded, sampleBuffer, samples,
                   txnRows, writeIdx, insertErrors, lastBatch, faults, response,
                   restarts, calibration, settings, forecast, sdFiles>>

\* SD.open succeeds or, within the fault budget, fails
SdOpen(openOk) ==
    /\ ~openOk => faults < MaxSdFaults
    /\ faults' = IF openOk THEN faults ELSE faults + 1

handleApiConfigPost ==
    /\ http.pc = "config_post"
    /\ \E openOk \in BOOLEAN :
          /\ SdOpen(openOk)
          /\ IF ~openOk
             THEN /\ response' = InoResponse(500, "config_post")
                  /\ UNCHANGED sdFiles
             ELSE /\ sdFiles' = [sdFiles EXCEPT !.user_prefs = http.body]
                  /\ response' = InoResponse(200, "config_post")
    /\ http' = HttpIdle
    /\ UNCHANGED <<engineVars, envVars, fwPc, dbOpen, jsLoaded, sampleBuffer, samples,
                   txnRows, writeIdx, insertErrors, lastBatch, requests, restarts,
                   calibration, settings, forecast>>

handleApiLogEvent ==
    /\ http.pc = "log_event"
    /\ \E doc \in {deserializeJson(http.body)} :
          IF doc.error
          THEN /\ response' = InoResponse(400, "log_event")
               /\ UNCHANGED <<sdFiles, faults>>
          ELSE \E openOk \in BOOLEAN :
                  /\ SdOpen(openOk)
                  /\ IF ~openOk
                     THEN /\ response' = InoResponse(500, "log_event")
                          /\ UNCHANGED sdFiles
                     ELSE /\ sdFiles' =
                                [sdFiles EXCEPT !.physics_events =
                                    Append(@, <<doc.timestamp, doc.event_type,
                                                doc.details, doc.cal_state>>)]
                          /\ response' = InoResponse(200, "log_event")
    /\ http' = HttpIdle
    /\ UNCHANGED <<engineVars, envVars, fwPc, dbOpen, jsLoaded, sampleBuffer, samples,
                   txnRows, writeIdx, insertErrors, lastBatch, requests, restarts,
                   calibration, settings, forecast>>

NextIno ==
    \/ post_request
    \/ handleApiConfigPost
    \/ handleApiLogEvent

SpecIno == Init /\ [][NextIno]_vars

(***************************************************************************)
(* Properties                                                              *)
(***************************************************************************)
HasResult == result.timestamp # Null

\* C1: a reading that fails quality control leaves the calibration state
\* and theta_fc_star exactly as they were before the reading
C1_InvalidReadingKeepsCalibration ==
    (HasResult /\ ~result.qc_valid) =>
        /\ autoCalibration.state = prev.state
        /\ autoCalibration.theta_fc_star = prev.theta_fc_star

\* an invalid reading arrives when INIT (INIT_COLLECTING) already holds enough
\* samples, so that a run of the state machine would have left the state
C1_Witness ==
    /\ HasResult
    /\ ~result.qc_valid
    /\ prev.state = "INIT"
    /\ autoCalibration.state = "INIT"
    /\ Len(history) >= minSamples(prev.simulationMode)

Edges ==
    { <<"INIT", "BASELINE_MONITORING">>,
      <<"BASELINE_MONITORING", "WETTING_EVENT">>,
      <<"WETTING_EVENT", "DRAINAGE_TRACKING">>,
      <<"DRAINAGE_TRACKING", "FC_ESTIMATE">>,
      <<"DRAINAGE_TRACKING", "NORMAL_OPERATION">>,
      <<"FC_ESTIMATE", "DRYDOWN_FIT">>,
      <<"DRYDOWN_FIT", "NORMAL_OPERATION">>,
      <<"NORMAL_OPERATION", "WETTING_EVENT">> }

\* C2: in one reading the calibration state changes only along the listed
\* edges; none of them leads back to INIT_COLLECTING or BASELINE_MONITORING
C2_OnlyListedEdges ==
    /\ autoCalibration.state \in States
    /\ prev.state # autoCalibration.state =>
          <<prev.state, autoCalibration.state>> \in Edges
    /\ prev.state \notin {"INIT", "BASELINE_MONITORING"} =>
          autoCalibration.state \notin {"INIT", "BASELINE_MONITORING"}

\* the cycle has closed after a field-capacity estimate: a later wetting
\* event starts from NORMAL_OPERATION
C2_Witness ==
    /\ prev.state = "NORMAL_OPERATION"
    /\ autoCalibration.state = "WETTING_EVENT"
    /\ autoCalibration.n_events >= 2
    /\ autoCalibration.fc_history # <<>>

\* C3: with theta_refill_star and theta_fc_star unchanged, a reading reported
\* REFILL is not followed by a reading reported OPTIMAL unless theta is above
\* theta_refill_star + refill_hysteresis
C3_RefillHeldByHysteresis ==
    [][ ( /\ HasResult
          /\ result.status = "REFILL"
          /\ result'.theta_refill = result.theta_refill
          /\ result'.theta_fc = result.theta_fc
          /\ result'.status = "OPTIMAL" )
        => result'.theta > result'.theta_refill + refill_hysteresis ]_vars

\* C4: theta_refill_star <= theta_fc_star whenever both are set
C4_RefillNotAboveFc ==
    (autoCalibration.theta_refill_star # Null /\ autoCalibration.theta_fc_star # Null)
        => autoCalibration.theta_refill_star <= autoCalibration.theta_fc_star

\* C9: the reported status is UNKNOWN exactly when theta_refill_star is not
\* known at the time the reading is reported
C9_UnknownIffNoRefill ==
    HasResult =>
        /\ result.theta_refill = autoCalibration.theta_refill_star
        /\ (result.status = "UNKNOWN") <=> (result.theta_refill = Null)

\* the reading on which theta_refill_star first becomes known
C9_Witness ==
    /\ HasResult
    /\ prev.theta_refill_star = Null
    /\ result.theta_refill # Null
    /\ result.status # "UNKNOWN"

\* C10: with theta_refill_star known, a reading with theta >= theta_fc_star
\* is reported FULL with urgency none
C10_AtOrAboveFcIsFull ==
    (HasResult /\ result.theta_refill # Null /\ result.theta >= result.theta_fc)
        => (result.status = "FULL" /\ result.urgency = "none")

InBuffer(s) == \E j \in 1..Len(sampleBuffer) : sampleBuffer[j] = s
InTable(s) == \E j \in 1..Len(samples) : samples[j] = s
WriteReturned == fwPc = "idle" /\ lastBatch # <<>>

\* C5: when an insert of a batch write failed, the RAM buffer still holds
\* every sample of that batch after the write has returned
C5_FailedBatchRetained ==
    (WriteReturned /\ insertErrors > 0) =>
        \A i \in 1..Len(lastBatch) : InBuffer(lastBatch[i])

\* C6: after a batch write has returned, either every sample of the batch is
\* in table samples or none is
C6_BatchAtomic ==
    WriteReturned =>
        \/ \A i \in 1..Len(lastBatch) : InTable(lastBatch[i])
        \/ \A i \in 1..Len(lastBatch) : ~InTable(lastBatch[i])

\* C7: no HTTP handler is reading the store while a batch write is between
\* its BEGIN and its COMMIT
C7_ReadWriteExclusive ==
    ~(http.pc # "idle" /\ fwPc \in {"insert", "commit"})

SameRate(a, b) == a.isnull = b.isnull /\ a.num * b.den = b.num * a.den

\* C8: the derived fields of a stored row equal the fields of the object
\* processSensorReading returned for that reading
C8_StoredRowMatchesResult ==
    \A i \in 1..Len(samples) :
        (HasResult /\ samples[i].timestamp = result.timestamp) =>
            /\ samples[i].theta_fc = result.theta_fc
            /\ samples[i].theta_refill = result.theta_refill
            /\ samples[i].status = result.status
            /\ samples[i].urgency = result.urgency
            /\ samples[i].regime = result.regime
            /\ SameRate(samples[i].drying_rate, result.dryingRate_per_hr)
            /\ samples[i].fraction_depleted = result.fractionDepleted
            /\ samples[i].qc_valid = result.qc_valid
            /\ samples[i].confidence = result.confidence

\* the ordered table of irrigation rules, first match wins; a null drying
\* rate matches neither rate condition
StatusTable(theta, theta_fc, theta_refill, rate) ==
    IF theta < theta_refill - refill_hysteresis
    THEN <<"REFILL", "high">>
    ELSE IF 10 * theta < 9 * theta_fc /\ ~rate.isnull /\ RateLT(rate, -20, 1)
    THEN <<"MONITOR", "medium">>
    ELSE IF theta < theta_fc /\ ~rate.isnull /\ RateLT(rate, -5, 1)
    THEN <<"MONITOR", "medium">>
    ELSE IF theta < theta_fc
    THEN <<"OPTIMAL", "low">>
    ELSE <<"FULL", "none">>

\* C11: with theta_refill_star known, the reported status and urgency are
\* those of the first matching rule of the ordered table, applied to the
\* reported theta, theta_fc, theta_refill and drying rate
C11_StatusFollowsTable ==
    (HasResult /\ result.theta_refill # Null) =>
        <<result.status, result.urgency>> =
            StatusTable(result.theta, result.theta_fc, result.theta_refill,
                        result.dryingRate_per_hr)

\* a reading reported MONITOR on a moderate drying trend: below theta_fc, not
\* below 0.9 theta_fc
C11_Witness ==
    /\ HasResult
    /\ result.theta_refill # Null
    /\ result.status = "MONITOR"
    /\ 10 * result.theta >= 9 * result.theta_fc

\* theta of a reported reading lies in [theta_refill - H, theta_refill + H]
InBand(r) ==
    /\ r.theta >= r.theta_refill - refill_hysteresis
    /\ r.theta <= r.theta_refill + refill_hysteresis

\* C12: with the thresholds unchanged, two successive readings whose theta
\* lies inside [theta_refill - H, theta_refill + H] are either both reported
\* REFILL or both reported something else
C12_NoFlapInsideBand ==
    [][ ( /\ HasResult
          /\ result.theta_refill # Null
          /\ result'.theta_refill = result.theta_refill
          /\ result'.theta_fc = result.theta_fc
          /\ InBand(result)
          /\ InBand(result') )
        => ((result'.status = "REFILL") <=> (result.status = "REFILL")) ]_vars

\* a reading inside the band on the dry side of theta_refill
C12_Witness ==
    /\ HasResult
    /\ result.theta_refill # Null
    /\ InBand(result)
    /\ result.theta < result.theta_refill
    /\ result.status # "REFILL"

\* C13: qc_total_count is the number of readings processed and qc_pass_count
\* the number of those that passed quality control (every reading processed
\* is in the history, which has not yet reached maxHistoryLength)
C13_QcCountersCountEveryReading ==
    Len(history) < maxHistoryLength =>
        /\ autoCalibration.qc_total_count = Len(history)
        /\ autoCalibration.qc_pass_count =
              Cardinality({i \in 1..Len(history) : history[i].qc_valid})

\* C14: the rows of table samples carry strictly increasing seq values in
\* the order they were written
C14_SeqStrictlyIncreasing ==
    \A i, j \in 1..Len(samples) : i < j => samples[i].seq < samples[j].seq

\* C15: the timestamps of table samples are strictly increasing in the
\* order the rows were written (so no two rows share one)
C15_TimestampsStrictlyIncreasing ==
    \A i, j \in 1..Len(samples) : i < j => samples[i].timestamp < samples[j].timestamp

\* C16: a tick that changes theta_fc_star, theta_refill_star or a fitted
\* dynamics parameter appends one row to table calibration, and the rows
\* already there stay as they are
C16_CalibrationVersionAppended ==
    [][ ( \/ autoCalibration'.theta_fc_star # autoCalibration.theta_fc_star
          \/ autoCalibration'.theta_refill_star # autoCalibration.theta_refill_star
          \/ dynamicsModel' # dynamicsModel )
        => /\ Len(calibration') = Len(calibration) + 1
           /\ SubSeq(calibration', 1, Len(calibration)) = calibration ]_vars

\* the first tick after a boot is still to come
FreshlyBooted == fwPc = "idle" /\ clock = 0

\* C17: after a restart, once setup has run, the history holds the tail of
\* the persisted samples, so that the next tick does not start from an empty
\* history
C17_HistoryRebuiltAfterRestart ==
    (restarts > 0 /\ FreshlyBooted /\ dbOpen /\ jsLoaded) =>
        /\ Len(history) = (IF Len(samples) < maxHistoryLength
                           THEN Len(samples) ELSE maxHistoryLength)
        /\ \A i \in 1..Len(history) :
              history[i].timestamp
                  = samples[Len(samples) - Len(history) + i].timestamp

\* C18: when the pipeline goes down, every sample of the pending RAM batch
\* is in table samples
C18_PendingBatchFlushedOnShutdown ==
    [][ (fwPc # "boot" /\ fwPc' = "boot") =>
            \A i \in 1..Len(sampleBuffer) :
                \E j \in 1..Len(samples') : samples'[j] = sampleBuffer[i] ]_vars

\* sample i of the pending batch leaves RAM in this step without being in
\* table samples
Dropped(i) ==
    /\ \A j \in 1..Len(sampleBuffer') : sampleBuffer'[j] # sampleBuffer[i]
    /\ \A j \in 1..Len(samples') : samples'[j] # sampleBuffer[i]

\* C19: the pending batch stays within its bound, the samples a step drops
\* from it are the oldest ones, and the step leaves the history as it is
C19_OnlyOldestPendingDropped ==
    [][ /\ Len(sampleBuffer') <= BATCH_SIZE
        /\ \A i \in 1..Len(sampleBuffer) :
              Dropped(i) => /\ \A k \in 1..i : Dropped(k)
                            /\ history' = history ]_vars

\* C20: the series a range query returns has at most 200 samples, each with
\* start <= timestamp <= end, in strictly ascending order of timestamp
C20_SeriesBoundedOrderedInRange ==
    [][ (http.pc = "series" /\ http'.pc = "idle") =>
            /\ Len(response'.series) <= series_limit
            /\ \A i \in 1..Len(response'.series) :
                  /\ http.start <= response'.series[i].timestamp
                  /\ response'.series[i].timestamp <= http.end
            /\ \A i \in 1..(Len(response'.series) - 1) :
                  response'.series[i].timestamp < response'.series[i + 1].timestamp ]_vars

\* a query answered at the cap from a store that holds more rows in range
C20_Witness ==
    /\ response.kind = "series"
    /\ Len(response.series) = series_limit
    /\ Len(samples) > series_limit
    /\ samples[1].timestamp > samples[2].timestamp

\* the reading stamped ts failed quality control
QcInvalidAt(ts) ==
    \E j \in 1..Len(history) : history[j].timestamp = ts /\ ~history[j].qc_valid

\* C21: a tick whose reading fails quality control appends its sample to the
\* RAM batch and leaves the calibration as it was, and a batch write without
\* insert errors stores the samples of such readings
C21_InvalidSamplePersisted ==
    [][ /\ (fwPc = "idle" /\ clock' # clock /\ jsLoaded /\ ~result'.qc_valid) =>
              /\ Len(sampleBuffer') = Len(sampleBuffer) + 1
              /\ sampleBuffer'[Len(sampleBuffer')].timestamp = result'.timestamp
              /\ autoCalibration' = autoCalibration
        /\ (fwPc = "commit" /\ fwPc' = "idle" /\ insertErrors = 0) =>
              \A i \in 1..Len(sampleBuffer) :
                  QcInvalidAt(sampleBuffer[i].timestamp) =>
                      \E j \in 1..Len(samples') : samples'[j] = sampleBuffer[i] ]_vars

\* a stored row whose reading failed quality control
C21_Witness ==
    \E i \in 1..Len(samples) : QcInvalidAt(samples[i].timestamp)

\* an HTTP handler sends its response in this step
HandlerAnswers == http.pc # "idle" /\ http'.pc = "idle"

ServerError(code) == code \in 500..599

\* C22: with a store that failed to open, /api/current and /api/series are
\* answered with a server error
C22_StoreFaultSurfaced ==
    [][ (HandlerAnswers /\ ~dbOpen) => ServerError(response'.code) ]_vars

\* C23: a tick whose physics evaluation fails adds no sample to the RAM
\* batch and leaves the calibration as it was
C23_FailedTickIsLost ==
    [][ (fwPc = "idle" /\ clock' # clock /\ ~jsLoaded) =>
            /\ sampleBuffer' = sampleBuffer
            /\ autoCalibration' = autoCalibration ]_vars

\* C24: a POST to /api/config or /api/log_event whose body is not valid
\* JSON is answered with a 4xx status and leaves the files on the card as
\* they were
C24_MalformedPostRejected ==
    [][ ( /\ http.pc \in {"config_post", "log_event"}
          /\ http'.pc = "idle"
          /\ deserializeJson(http.body).error )
        => /\ response'.code \in 400..499
           /\ sdFiles' = sdFiles ]_vars

\* C25: a handler that answers while a batch write holds the store, between
\* its BEGIN and its COMMIT, has not got the store and answers with a server
\* error
C25_NoReadWithoutStoreLock ==
    [][ (HandlerAnswers /\ fwPc \in {"insert", "commit"}) =>
            ServerError(response'.code) ]_vars

\* C26: theta of a converted reading lies in [0, 0.50], in the engine and in
\* firmware/main.ino alike
C26_ThetaWithinBounds ==
    HasResult =>
        /\ 0 <= result.theta /\ result.theta <= 5000
        /\ ("theta_ino" \in DOMAIN result) =>
              (0 <= result.theta_ino /\ result.theta_ino <= 5000)

\* a raw reading beyond the last point of the curve with the probe
\* disconnected
C26_Witness ==
    /\ HasResult
    /\ result.raw > factoryCurve[5][1]
    /\ result.temp_c < temp_lo
    /\ result.theta = theta_bound_hi

\* C27: the confidence of the calibration, and the one reported with a
\* reading, lies in [0, 1]
C27_ConfidenceWithinUnit ==
    /\ 0 <= autoCalibration.confidence /\ autoCalibration.confidence <= 10000
    /\ (HasResult /\ "confidence" \in DOMAIN result) =>
          (0 <= result.confidence /\ result.confidence <= 10000)

\* updateConfidence has run on a calibration whose weighted sum with the
\* state bonus passes 1, and has cut it back
C27_Witness ==
    /\ autoCalibration.confidence = 10000
    /\ prev.confidence # 10000
    /\ autoCalibration.state = "NORMAL_OPERATION"
    /\ autoCalibration.qc_pass_count = autoCalibration.qc_total_count
    /\ autoCalibration.qc_total_count >= 50

\* the readings processed so far, one per cadence step from time 0
Processed == clock \div Cadence

\* C28: after n readings the history holds exactly the most recent
\* min(n, maxHistoryLength) of them, oldest first
C28_HistoryIsTrailingWindow ==
    /\ Len(history) = (IF Processed < maxHistoryLength THEN Processed
                       ELSE maxHistoryLength)
    /\ \A i \in 1..Len(history) :
          history[i].timestamp = clock - (Len(history) - i) * Cadence

\* a reading has arrived at a full history and the first reading is gone
C28_Witness ==
    /\ Processed > maxHistoryLength
    /\ Len(history) = maxHistoryLength
    /\ history[1].timestamp > Cadence

\* C29: with crop and soil settings applied, the theta_fc_star and
\* theta_refill_star the engine sets on leaving INIT are the theta_fc and
\* theta_refill derived from those settings
C29_SettingsSeedCalibration ==
    [][ ( /\ settings.applied
          /\ autoCalibration.state = "INIT"
          /\ autoCalibration'.state # "INIT" )
        => /\ autoCalibration'.theta_fc_star = settings.theta_fc
           /\ autoCalibration'.theta_refill_star = settings.theta_refill ]_vars

\* the QC-valid samples held by a history
GoodSamples(h) == Cardinality({i \in 1..Len(h) : h[i].qc_valid})

\* C31: the machine leaves INIT only on a tick at which the history holds at
\* least N_init QC-valid samples (96, or 10 in simulation mode)
C31_LeavesInitOnGoodSamples ==
    [][ (autoCalibration.state = "INIT" /\ autoCalibration'.state # "INIT")
        => GoodSamples(history') >= minSamples(autoCalibration.simulationMode) ]_vars

\* the rise of theta over the wetting window that ends with the last sample
WindowRise(h) ==
    LET recentData == Since(h, h[Len(h)].timestamp - wet_window)
    IN  recentData[Len(recentData)].theta - recentData[1].theta

\* a valid tick processed in a state that looks for wetting events
DetectorTick ==
    /\ clock' # clock
    /\ result'.qc_valid
    /\ autoCalibration.state \in {"BASELINE_MONITORING", "NORMAL_OPERATION"}

C33_OneEventPerEpisode ==
    [][ autoCalibration'.n_events =
            autoCalibration.n_events
            + (IF autoCalibration.state # "WETTING_EVENT"
                  /\ autoCalibration'.state = "WETTING_EVENT" THEN 1 ELSE 0) ]_vars

\* a valid tick processed in DRAINAGE_TRACKING
DrainageTick ==
    /\ clock' # clock
    /\ result'.qc_valid
    /\ autoCalibration.state = "DRAINAGE_TRACKING"

\* C34: a valid tick in DRAINAGE_TRACKING that detects an FC plateau ends in
\* FC_ESTIMATE carrying the plateau median, and one that ends in
\* NORMAL_OPERATION detected no plateau and classified the regime as drydown
C34_PlateauLeadsToFcEstimate ==
    [][ DrainageTick =>
          /\ detectFCPlateau(history').detected =>
                /\ autoCalibration'.state = "FC_ESTIMATE"
                /\ autoCalibration'.fc_candidate =
                       detectFCPlateau(history').theta_fc_candidate
          /\ autoCalibration'.state = "NORMAL_OPERATION" =>
                /\ ~detectFCPlateau(history').detected
                /\ classifyRegime(history', autoCalibration.theta_fc_star) = "drydown"
      ]_vars

\* a tick in DRAINAGE_TRACKING has detected a plateau below theta_fc_star
C34_Witness ==
    /\ HasResult
    /\ result.qc_valid
    /\ prev.state = "DRAINAGE_TRACKING"
    /\ autoCalibration.state = "FC_ESTIMATE"
    /\ autoCalibration.fc_candidate # Null

\* a tick in DRAINAGE_TRACKING gave up on the event
C34_WitnessGiveUp ==
    /\ HasResult
    /\ result.qc_valid
    /\ prev.state = "DRAINAGE_TRACKING"
    /\ autoCalibration.state = "NORMAL_OPERATION"

\* the first index of the flat run that ends just before the last sample of
\* h: the longest stretch h[k..Len(h)-1] whose range is below stuck_eps
FlatRunStart(h) ==
    LET n == Len(h) - 1
        flat(k) == MaxOf(Thetas(SubSeq(h, k, n))) - MinOf(Thetas(SubSeq(h, k, n))) < stuck_eps
    IN  CHOOSE k \in 1..n : flat(k) /\ \A j \in 1..(k - 1) : ~flat(j)

\* C35: a reading flagged stuck comes after a flat run that has lasted at
\* least stuck_hours
C35_StuckNeedsDuration ==
    (HasResult /\ "SENSOR_STUCK" \in result.qc_flags /\ Len(history) < maxHistoryLength) =>
        result.timestamp - history[FlatRunStart(history)].timestamp
            >= stuck_hours * 3600

\* C36: a reading flagged stuck leaves the calibration state where it was
\* and does not raise the confidence, neither the engine's nor the one
\* reported with the sample
C36_StuckHaltsCalibration ==
    [][ (clock' # clock /\ "SENSOR_STUCK" \in result'.qc_flags) =>
          /\ autoCalibration'.state = autoCalibration.state
          /\ autoCalibration'.confidence <= autoCalibration.confidence
          /\ HasResult => result'.confidence <= result.confidence ]_vars

\* the sensor stays stuck: the last two readings are both flagged
C36_Witness ==
    /\ Len(history) >= 12
    /\ "SENSOR_STUCK" \in history[Len(history)].qc_flags
    /\ "SENSOR_STUCK" \in history[Len(history) - 1].qc_flags
    /\ result.timestamp = history[Len(history)].timestamp

\* C37: once theta_refill_star is set it stays set, and a sample reported
\* with a status other than UNKNOWN is never followed by one reported UNKNOWN
C37_RefillNeverUnset ==
    [][ /\ Truthy(autoCalibration.theta_refill_star) =>
              Truthy(autoCalibration'.theta_refill_star)
        /\ (HasResult /\ result.status # "UNKNOWN") =>
              result'.status # "UNKNOWN" ]_vars

\* updateRefillThreshold has replaced the theta_refill_star set on leaving
\* INIT, and the sample is reported with a status
C37_Witness ==
    /\ HasResult
    /\ prev.state = "FC_ESTIMATE"
    /\ Truthy(prev.theta_refill_star)
    /\ autoCalibration.theta_refill_star # prev.theta_refill_star
    /\ result.status # "UNKNOWN"

\* C38: theta_fc_star and theta_refill_star change only on the tick that
\* leaves INIT and on ticks processed in FC_ESTIMATE
C38_ThresholdsChangeOnlyInInitAndFcEstimate ==
    [][ ( \/ autoCalibration'.theta_fc_star # autoCalibration.theta_fc_star
          \/ autoCalibration'.theta_refill_star # autoCalibration.theta_refill_star )
        => /\ clock' # clock
           /\ result'.qc_valid
           /\ \/ autoCalibration.state = "INIT" /\ autoCalibration'.state # "INIT"
              \/ autoCalibration.state = "FC_ESTIMATE" ]_vars

\* the machine is past a tick in FC_ESTIMATE that changed both thresholds,
\* and the tick after it, processed in DRYDOWN_FIT, has left them alone
C38_Witness ==
    /\ HasResult
    /\ result.qc_valid
    /\ prev.state = "DRYDOWN_FIT"
    /\ autoCalibration.state = "NORMAL_OPERATION"
    /\ Len(autoCalibration.fc_history) = 1
    /\ autoCalibration.theta_fc_star # soil_theta_fc
    /\ autoCalibration.theta_fc_star = prev.theta_fc_star
    /\ autoCalibration.theta_refill_star = prev.theta_refill_star
    /\ Len(history) > 102

\* C39: a valid tick processed in FC_ESTIMATE ends in DRYDOWN_FIT and a
\* valid tick processed in DRYDOWN_FIT ends in NORMAL_OPERATION, with or
\* without a fitted parameter
C39_FitStatesAreTransient ==
    [][ (clock' # clock /\ result'.qc_valid) =>
          /\ autoCalibration.state = "FC_ESTIMATE" =>
                autoCalibration'.state = "DRYDOWN_FIT"
          /\ autoCalibration.state = "DRYDOWN_FIT" =>
                autoCalibration'.state = "NORMAL_OPERATION" ]_vars

\* NORMAL_OPERATION reached from DRYDOWN_FIT on a tick whose drydown fit
\* succeeded, after a tick in FC_ESTIMATE whose drainage fit succeeded
C39_Witness ==
    /\ HasResult
    /\ result.qc_valid
    /\ prev.state = "DRYDOWN_FIT"
    /\ autoCalibration.state = "NORMAL_OPERATION"
    /\ dynamicsModel.ku = "fitted"
    /\ dynamicsModel.kd = "fitted"

\* the same with neither fit succeeding
C39_WitnessNoFit ==
    /\ HasResult
    /\ result.qc_valid
    /\ prev.state = "DRYDOWN_FIT"
    /\ autoCalibration.state = "NORMAL_OPERATION"
    /\ dynamicsModel.ku = "init"
    /\ dynamicsModel.kd = "init"

\* C40: the forward simulation of a strategy takes at most 120 steps of six
\* hours, and a call of compareIrrigationStrategies comes to its end
C40_CompareTerminates ==
    /\ [](forecast.pc = "loop" =>
            /\ forecast.steps * dt = forecast.hours
            /\ forecast.hours <= maxHours)
    /\ <>(forecast.pc = "done")

\* a strategy whose simulated theta was still above theta_refill after 30
\* days
C40_Witness ==
    /\ forecast.pc = "done"
    /\ \E i \in 1..Len(forecast.strategies) : forecast.strategies[i].hours = maxHours

====
